---- MODULE Spec2Model ----
(***************************************************************************)
(* A model of dcsv: the streaming CSV Parser (src/src/parser.rs) and the   *)
(* two tabular containers VirtualData (src/src/virtual_data.rs) and        *)
(* VirtualArray (src/src/virtual_array.rs) with their values and limiters  *)
(* (src/src/value.rs) and width metadata (src/src/meta.rs).                *)
(*                                                                         *)
(* Conventions.                                                            *)
(*  - A Rust String is a sequence of one-character strings: "ab" is        *)
(*    <<"a", "b">>.                                                        *)
(*  - An Option<T> is a sequence of length <= 1: None is <<>>, Some(v) is  *)
(*    <<v>>.                                                               *)
(*  - Rust indices are 0-based and kept 0-based in the arguments of the    *)
(*    operations; element i of a Vec is seq[i + 1].                        *)
(*  - Every container operation is an operator from the container (and    *)
(*    the arguments) to [data |-> the container afterwards, ret |-> the    *)
(*    returned value]; ret = "Panic" is an index-out-of-bounds abort.      *)
(***************************************************************************)
EXTENDS Integers, Sequences, FiniteSets, TLC

VARIABLES
    sut,      \* which container the program holds: "VirtualData" or "VirtualArray"
    vd,       \* the VirtualData  [metas, columns, rows]
    va,       \* the VirtualArray [metas, columns, rows]
    last,     \* the last call made on the container: its name, arguments, result
    parser,   \* the Parser [container, remnant, on_quote, line_delimiter]
    option,   \* the ReaderOption, and the parser's space_dlimited flag
    feed,     \* the last feed_chunk call: the chunk, the result, what it did
    lim       \* the ValueLimiter the program builds [value_type, default, variant, pattern]

vars == <<sut, vd, va, last, parser, option, feed, lim>>

---------------------------------------------------------------------------
(* Sequences with 0-based indices (Vec).                                   *)

\* unwrap_or on an Option
unwrap_or(opt, default) == IF opt = <<>> THEN default ELSE opt[1]

Min(a, b) == IF a < b THEN a ELSE b

Max(a, b) == IF a > b THEN a ELSE b

\* Vec::swap(i, j)
Swap(seq, i, j) ==
    [seq EXCEPT ![i + 1] = seq[j + 1], ![j + 1] = seq[i + 1]]

\* Vec::insert(index, e), for index <= len
InsertAt(seq, index, e) ==
    SubSeq(seq, 1, index) \o <<e>> \o SubSeq(seq, index + 1, Len(seq))

\* Vec::remove(index), for index < len
RemoveAt(seq, index) ==
    SubSeq(seq, 1, index) \o SubSeq(seq, index + 2, Len(seq))

---------------------------------------------------------------------------
(* Value (src/src/value.rs).                                               *)

Number(n) == [vtype |-> "Number", num |-> n, text |-> <<>>]

Text(t) == [vtype |-> "Text", num |-> 0, text |-> t]

get_type(value) == value.vtype

DigitChars == <<"0", "1", "2", "3", "4", "5", "6", "7", "8", "9">>

IsDigit(c) == \E d \in 1..10 : DigitChars[d] = c

DigitVal(c) == (CHOOSE d \in 1..10 : DigitChars[d] = c) - 1

RECURSIVE DigitsToNat(_)
DigitsToNat(s) ==
    IF s = <<>> THEN 0
    ELSE DigitsToNat(SubSeq(s, 1, Len(s) - 1)) * 10 + DigitVal(s[Len(s)])

RECURSIVE NatToDigits(_)
NatToDigits(n) ==
    IF n < 10 THEN <<DigitChars[n + 1]>>
    ELSE NatToDigits(n \div 10) \o <<DigitChars[(n % 10) + 1]>>

\* str::parse::<usize>(): an optional "+", then one or more decimal digits.
parse_usize(s) ==
    LET body == IF s # <<>> /\ s[1] = "+" THEN Tail(s) ELSE s
    IN  IF body # <<>> /\ \A i \in DOMAIN body : IsDigit(body[i])
        THEN <<DigitsToNat(body)>>
        ELSE <<>>

\* str::parse::<isize>(): an optional sign, then one or more decimal digits.
parse_isize(s) ==
    LET signed == s # <<>> /\ s[1] \in {"+", "-"}
        body == IF signed THEN Tail(s) ELSE s
    IN  IF body # <<>> /\ \A i \in DOMAIN body : IsDigit(body[i])
        THEN <<IF s[1] = "-" THEN 0 - DigitsToNat(body) ELSE DigitsToNat(body)>>
        ELSE <<>>

\* Value::from_str(src, value_type): <<value>>, or <<>> for InvalidValueType
from_str(src, value_type) ==
    IF value_type = "Text" THEN <<Text(src)>>
    ELSE IF src = <<>> THEN <<Number(0)>>
    ELSE IF parse_isize(src) = <<>> THEN <<>>
    ELSE <<Number(parse_isize(src)[1])>>

\* Value::empty(value_type)
Value_empty(value_type) == IF value_type = "Number" THEN Number(0) ELSE Text(<<>>)

\* impl Display for Value
to_string(value) ==
    IF value.vtype = "Number"
    THEN IF value.num < 0 THEN <<"-">> \o NatToDigits(0 - value.num)
         ELSE NatToDigits(value.num)
    ELSE value.text

\* The display width the metas track: 0 for the number 0, the number of
\* digits of a positive number, the number of characters of a text (every
\* character of the model's alphabet has width 1).
get_width(value) ==
    IF value.vtype = "Number"
    THEN IF value.num = 0 THEN 0 ELSE Len(NatToDigits(value.num))
    ELSE Len(value.text)

---------------------------------------------------------------------------
(* ValueLimiter (src/src/value.rs).                                        *)

\* #[derive(Default)]: Text, no default, no variant, no pattern
ValueLimiter_default ==
    [value_type |-> "Text", default |-> <<>>, variant |-> <<>>, pattern |-> <<>>]

\* Regex::is_match for the patterns the model uses.
is_match(pattern, s) ==
    CASE pattern = "^[0-9]+$" -> s # <<>> /\ \A i \in DOMAIN s : IsDigit(s[i])
      [] pattern = "^x"       -> s # <<>> /\ s[1] = "x"
      [] OTHER                -> FALSE

contains(vec, value) == \E i \in DOMAIN vec : vec[i] = value

\* qualify with the variant and the pattern left unread
qualify_by_type(limiter, value) == get_type(value) = limiter.value_type

qualify(limiter, value) ==
    IF get_type(value) # limiter.value_type THEN FALSE
    ELSE IF limiter.variant # <<>> THEN contains(limiter.variant[1], value)
    ELSE IF limiter.pattern # <<>> THEN is_match(limiter.pattern[1], to_string(value))
    ELSE TRUE

\* Option<ValueType>
is_convertible(limiter, value) ==
    IF limiter.value_type = "Text" THEN <<"Text">>
    ELSE IF value.vtype = "Number" THEN <<"Number">>
    ELSE IF value.text = <<>> \/ parse_isize(value.text) # <<>> THEN <<"Number">>
    ELSE <<>>

---------------------------------------------------------------------------
(* Meta (src/src/meta.rs).  of is a ghost field: the name under which the  *)
(* column this meta was made for was created (see Column.born).            *)

Meta_new(column_name) == [max_unicode_width |-> 0, of |-> column_name]

set_width(meta, width) == [meta EXCEPT !.max_unicode_width = width]

update_width_from_value(meta, value) ==
    [meta EXCEPT !.max_unicode_width = Max(meta.max_unicode_width, get_width(value))]

---------------------------------------------------------------------------
(* Column and Row (src/src/virtual_data.rs).  born is a ghost field: the   *)
(* name the column was created with; rename does not change it.           *)

Column_new(name, column_type, limiter) ==
    [name |-> name, column_type |-> column_type,
     limiter |-> IF limiter = <<>> THEN ValueLimiter_default ELSE limiter[1],
     born |-> name]

Column_empty(name) ==
    [name |-> name, column_type |-> "Text", limiter |-> ValueLimiter_default,
     born |-> name]

get_default_value(col) ==
    IF col.limiter.default # <<>> THEN col.limiter.default[1]
    ELSE IF col.limiter.variant # <<>> /\ col.limiter.variant[1] # <<>>
         THEN col.limiter.variant[1][1]
    ELSE IF col.column_type = "Number" THEN Number(0)
    ELSE Text(<<>>)

\* A Row is a HashMap<String, Value>: a function from its keys to values.
Row_new == <<>>

insert_cell(row, key, value) ==
    [k \in (DOMAIN row) \cup {key} |-> IF k = key THEN value ELSE row[k]]

update_cell_value(row, key, value) ==
    IF key \in DOMAIN row THEN [row EXCEPT ![key] = value] ELSE row

remove_cell(row, key) == [k \in (DOMAIN row) \ {key} |-> row[k]]

\* Row::change_cell_type(key, target_type): <<row>>, or <<>> for
\* InvalidCellData
change_cell_type(row, key, target_type) ==
    IF key \notin DOMAIN row THEN <<row>>
    ELSE IF row[key].vtype = "Text" /\ target_type = "Number"
    THEN IF row[key].text = <<>> THEN <<[row EXCEPT ![key] = Number(0)]>>
         ELSE IF parse_isize(row[key].text) = <<>> THEN <<>>
         ELSE <<[row EXCEPT ![key] = Number(parse_isize(row[key].text)[1])]>>
    ELSE IF row[key].vtype = "Number" /\ target_type = "Text"
    THEN <<[row EXCEPT ![key] = Text(to_string(row[key]))]>>
    ELSE <<row>>

\* Column::set_limiter
Column_set_limiter(col, limiter) ==
    [col EXCEPT !.column_type = limiter.value_type, !.limiter = limiter]

Row_rename_column(row, name, new_name) ==
    IF name \in DOMAIN row
    THEN insert_cell(remove_cell(row, name), new_name, row[name])
    ELSE row

\* columns.iter().zip(values).for_each(insert_cell): a later column of the
\* same name overwrites the earlier one.
RECURSIVE insert_cells(_, _, _)
insert_cells(row, columns, values) ==
    IF columns = <<>> \/ values = <<>> THEN row
    ELSE insert_cells(insert_cell(row, columns[1].name, values[1]),
                      Tail(columns), Tail(values))

\* Row::get_iterator(columns): the cells in column order, absent ones skipped
RECURSIVE Row_get_iterator(_, _)
Row_get_iterator(row, columns) ==
    IF columns = <<>> THEN <<>>
    ELSE (IF columns[1].name \in DOMAIN row THEN <<row[columns[1].name]>> ELSE <<>>)
         \o Row_get_iterator(row, Tail(columns))

---------------------------------------------------------------------------
(* The move loops shared by move_row and move_column of both containers.   *)

Res(d, r) == [data |-> d, ret |-> r]

\* Ordering::Greater: "go left".  index and next walk down from src; the
\* loop breaks at next = 0 because next is a usize.
RECURSIVE MoveLeft(_, _, _, _)
MoveLeft(seq, index, next, target_index) ==
    IF next >= target_index
    THEN LET swapped == Swap(seq, index, next)
         IN  IF next = 0 THEN swapped
             ELSE MoveLeft(swapped, index - 1, next - 1, target_index)
    ELSE seq

\* Ordering::Less: "go right".
RECURSIVE MoveRight(_, _, _, _)
MoveRight(seq, index, next, target_index) ==
    IF next <= target_index
    THEN MoveRight(Swap(seq, index, next), index + 1, next + 1, target_index)
    ELSE seq

MoveSeq(seq, src_index, target_index) ==
    IF src_index > target_index
    THEN MoveLeft(seq, src_index, src_index - 1, target_index)
    ELSE IF src_index < target_index
    THEN MoveRight(seq, src_index, src_index + 1, target_index)
    ELSE seq

---------------------------------------------------------------------------
(* VirtualData (src/src/virtual_data.rs).                                  *)

VD_new == [metas |-> <<>>, columns |-> <<>>, rows |-> <<>>]

VD_get_row_count(d) == Len(d.rows)

VD_get_column_count(d) == Len(d.columns)

VD_is_valid_cell_coordinate(d, x, y) ==
    x < VD_get_row_count(d) /\ y < VD_get_column_count(d)

\* columns.iter().position(|c| c.name == src)
position(columns, src) ==
    IF \E i \in DOMAIN columns : columns[i].name = src
    THEN <<(CHOOSE i \in DOMAIN columns :
               /\ columns[i].name = src
               /\ \A j \in 1..(i - 1) : columns[j].name # src) - 1>>
    ELSE <<>>

\* A src that parses as a usize is taken as an index, not as a name.
VD_try_get_column_index(d, src) ==
    LET parsed == parse_usize(src)
    IN  IF parsed = <<>> THEN position(d.columns, src)
        ELSE IF parsed[1] < VD_get_column_count(d) THEN <<parsed[1]>>
        ELSE <<>>

VD_move_row(d, src_index, target_index) ==
    IF src_index >= VD_get_row_count(d) \/ target_index >= VD_get_row_count(d)
    THEN Res(d, "OutOfRangeError")
    ELSE Res([d EXCEPT !.rows = MoveSeq(d.rows, src_index, target_index)], "Ok")

VD_move_column(d, src_index, target_index) ==
    IF src_index >= VD_get_column_count(d) \/ target_index >= VD_get_column_count(d)
    THEN Res(d, "OutOfRangeError")
    ELSE IF src_index # target_index /\ Max(src_index, target_index) >= Len(d.metas)
    THEN Res(d, "Panic")
    ELSE Res([d EXCEPT !.columns = MoveSeq(d.columns, src_index, target_index),
                       !.metas = MoveSeq(d.metas, src_index, target_index)], "Ok")

VD_rename_column(d, column_index, new_name) ==
    LET next_column_index == VD_try_get_column_index(d, new_name)
    IN  IF ~VD_is_valid_cell_coordinate(d, 0, column_index)
        THEN Res(d, "OutOfRangeError")
        ELSE IF next_column_index # <<>> THEN Res(d, "InvalidColumn")
        ELSE LET previous == d.columns[column_index + 1].name
             IN  Res([d EXCEPT
                        !.columns[column_index + 1].name = new_name,
                        !.rows = [r \in DOMAIN d.rows |->
                                    Row_rename_column(d.rows[r], previous, new_name)]],
                     "Ok")

VD_set_column(d, column_index, value) ==
    IF ~VD_is_valid_cell_coordinate(d, 0, column_index)
    THEN Res(d, "OutOfRangeError")
    ELSE IF column_index >= Len(d.metas) THEN Res(d, "Panic")
    ELSE LET column == d.columns[column_index + 1].name
         IN  Res([d EXCEPT
                    !.metas[column_index + 1] = update_width_from_value(@, value),
                    !.rows = [r \in DOMAIN d.rows |->
                                update_cell_value(d.rows[r], column, value)]],
                 "Ok")

\* The write loop of edit_row and set_row: values[i] = <<v>> writes v under
\* columns[i].name, values[i] = <<>> writes nothing.
RECURSIVE update_cells(_, _, _)
update_cells(row, columns, values) ==
    IF columns = <<>> \/ values = <<>> THEN row
    ELSE update_cells(
            IF values[1] # <<>>
            THEN update_cell_value(row, columns[1].name, values[1][1])
            ELSE row,
            Tail(columns), Tail(values))

update_metas(metas, values) ==
    [i \in DOMAIN metas |->
        IF i <= Len(values) /\ values[i] # <<>>
        THEN update_width_from_value(metas[i], values[i][1])
        ELSE metas[i]]

VD_edit_row(d, row_index, values) ==
    IF Len(values) # VD_get_column_count(d) THEN Res(d, "InsufficientRowData")
    ELSE IF ~VD_is_valid_cell_coordinate(d, row_index, 0)
    THEN Res(d, "OutOfRangeError")
    ELSE IF \E i \in DOMAIN values :
                values[i] # <<>> /\ ~qualify(d.columns[i].limiter, values[i][1])
    THEN Res(d, "InvalidRowData")
    ELSE IF \E i \in DOMAIN values : values[i] # <<>> /\ i > Len(d.metas)
    THEN Res(d, "Panic")
    ELSE Res([d EXCEPT
                !.metas = update_metas(d.metas, values),
                !.rows[row_index + 1] = update_cells(@, d.columns, values)],
             "Ok")

Somes(values) == [i \in DOMAIN values |-> <<values[i]>>]

VD_set_row(d, row_index, values) ==
    IF Len(values) # VD_get_column_count(d) THEN Res(d, "InsufficientRowData")
    ELSE IF ~VD_is_valid_cell_coordinate(d, row_index, 0)
    THEN Res(d, "OutOfRangeError")
    ELSE IF \E i \in DOMAIN values : ~qualify(d.columns[i].limiter, values[i])
    THEN Res(d, "InvalidRowData")
    ELSE IF Len(values) > Len(d.metas) THEN Res(d, "Panic")
    ELSE Res([d EXCEPT
                !.metas = update_metas(d.metas, Somes(values)),
                !.rows[row_index + 1] = update_cells(@, d.columns, Somes(values))],
             "Ok")

\* Option<&Value>
VD_get_cell(d, x, y) ==
    IF VD_is_valid_cell_coordinate(d, x, y)
    THEN LET name == d.columns[y + 1].name
         IN  IF name \in DOMAIN d.rows[x + 1] THEN <<d.rows[x + 1][name]>> ELSE <<>>
    ELSE <<>>

VD_set_cell(d, x, y, value) ==
    IF ~VD_is_valid_cell_coordinate(d, x, y) THEN Res(d, "OutOfRangeError")
    ELSE IF ~qualify(d.columns[y + 1].limiter, value) THEN Res(d, "InvalidCellData")
    ELSE IF y >= Len(d.metas) THEN Res(d, "Panic")
    ELSE Res([d EXCEPT
                !.metas[y + 1] = update_width_from_value(@, value),
                !.rows[x + 1] = update_cell_value(@, d.columns[y + 1].name, value)],
             "Ok")

\* source is an Option<&[Value]>
VD_insert_row(d, row_index, source) ==
    IF row_index > VD_get_row_count(d) THEN Res(d, "InvalidColumn")
    ELSE IF source # <<>> /\ VD_get_column_count(d) # Len(source[1])
    THEN Res(d, "InvalidRowData")
    ELSE IF source # <<>> /\ \E i \in DOMAIN source[1] :
                                ~qualify(d.columns[i].limiter, source[1][i])
    THEN Res(d, "InvalidRowData")
    ELSE LET new_row ==
                 IF source # <<>> THEN insert_cells(Row_new, d.columns, source[1])
                 ELSE insert_cells(Row_new, d.columns,
                        [i \in DOMAIN d.columns |-> get_default_value(d.columns[i])])
         IN  Res([d EXCEPT
                    !.metas = [i \in DOMAIN d.metas |->
                                 IF i <= Len(d.columns)
                                 THEN update_width_from_value(
                                          d.metas[i], new_row[d.columns[i].name])
                                 ELSE d.metas[i]],
                    !.rows = InsertAt(d.rows, row_index, new_row)],
                 "Ok")

VD_insert_column(d, column_index, column_name) ==
    IF column_index > VD_get_column_count(d) THEN Res(d, "InvalidColumn")
    ELSE IF VD_try_get_column_index(d, column_name) # <<>> THEN Res(d, "InvalidColumn")
    ELSE IF column_index > Len(d.metas) THEN Res(d, "Panic")
    ELSE LET new_column == Column_new(column_name, "Text", <<>>)
             default_value == get_default_value(new_column)
             meta == set_width(Meta_new(column_name),
                               Max(Len(column_name), get_width(default_value)))
         IN  Res([metas |-> InsertAt(d.metas, column_index, meta),
                  columns |-> InsertAt(d.columns, column_index, new_column),
                  rows |-> [r \in DOMAIN d.rows |->
                              insert_cell(d.rows[r], new_column.name, default_value)]],
                 "Ok")

\* get_column_iterator(idx): the cells of column idx over all rows
VD_get_column_iterator(d, column_index) ==
    LET name == d.columns[column_index + 1].name
        RECURSIVE cells(_)
        cells(rows) ==
            IF rows = <<>> THEN <<>>
            ELSE (IF name \in DOMAIN rows[1] THEN <<rows[1][name]>> ELSE <<>>)
                 \o cells(Tail(rows))
    IN  cells(d.rows)

RECURSIVE MaxWidth(_)
MaxWidth(cells) ==
    IF cells = <<>> THEN 0 ELSE Max(get_width(cells[1]), MaxWidth(Tail(cells)))

VD_delete_row(d, row_index) ==
    IF VD_get_row_count(d) = 0 \/ VD_get_row_count(d) < row_index
    THEN Res(d, "false")
    ELSE IF row_index >= Len(d.rows) THEN Res(d, "Panic")
    ELSE LET removed == Row_get_iterator(d.rows[row_index + 1], d.columns)
             after == [d EXCEPT !.rows = RemoveAt(d.rows, row_index)]
             to_be_updated(i) ==
                 /\ i <= Len(removed)
                 /\ get_width(removed[i]) >= d.metas[i].max_unicode_width
         IN  Res([after EXCEPT
                    !.metas = [i \in DOMAIN d.metas |->
                                 IF to_be_updated(i)
                                 THEN set_width(d.metas[i],
                                        MaxWidth(VD_get_column_iterator(after, i - 1)))
                                 ELSE d.metas[i]]],
                 "true")

\* delete_column without the drop of the rows of a table left without columns
VD_delete_column_keeping_rows(d, column_index) ==
    IF ~VD_is_valid_cell_coordinate(d, 0, column_index) THEN Res(d, "OutOfRangeError")
    ELSE IF column_index >= Len(d.metas) THEN Res(d, "Panic")
    ELSE Res([metas |-> RemoveAt(d.metas, column_index),
              columns |-> RemoveAt(d.columns, column_index),
              rows |-> [r \in DOMAIN d.rows |->
                          remove_cell(d.rows[r], d.columns[column_index + 1].name)]],
             "Ok")

VD_delete_column(d, column_index) ==
    IF ~VD_is_valid_cell_coordinate(d, 0, column_index) THEN Res(d, "OutOfRangeError")
    ELSE IF column_index >= Len(d.metas) THEN Res(d, "Panic")
    ELSE LET name == d.columns[column_index + 1].name
             columns == RemoveAt(d.columns, column_index)
         IN  Res([metas |-> RemoveAt(d.metas, column_index),
                  columns |-> columns,
                  rows |-> IF columns = <<>> THEN <<>>
                           ELSE [r \in DOMAIN d.rows |-> remove_cell(d.rows[r], name)]],
                 "Ok")

\* columns and rows are cleared; metas are not.
VD_drop_data(d) == Res([d EXCEPT !.columns = <<>>, !.rows = <<>>], "Ok")

VD_insert_column_with_type(d, column_index, column_name, column_type, limiter, placeholder) ==
    IF column_index > VD_get_column_count(d) THEN Res(d, "InvalidColumn")
    ELSE IF VD_try_get_column_index(d, column_name) # <<>> THEN Res(d, "InvalidColumn")
    ELSE IF column_index > Len(d.metas) THEN Res(d, "Panic")
    ELSE LET new_column == Column_new(column_name, column_type, limiter)
             default_value == get_default_value(new_column)
             value == IF placeholder # <<>> THEN placeholder[1] ELSE default_value
             meta == set_width(Meta_new(column_name),
                               Max(Len(column_name), get_width(default_value)))
         IN  Res([metas |-> InsertAt(d.metas, column_index, meta),
                  columns |-> InsertAt(d.columns, column_index, new_column),
                  rows |-> [r \in DOMAIN d.rows |->
                              insert_cell(d.rows[r], new_column.name, value)]],
                 "Ok")

\* One turn of the row loop of set_limiter on a row: [row |-> the row
\* afterwards, ret |-> "Ok" or the error the turn returns].
set_limiter_row(row, name, limiter, panic) ==
    IF name \notin DOMAIN row THEN [row |-> row, ret |-> "InvalidRowData"]
    ELSE
    LET value == row[name]
        ttype == is_convertible(limiter, value)
        converted == IF ttype = <<>> THEN <<value>>
                     ELSE from_str(to_string(value), ttype[1])
        qualified == qualify(limiter, converted[1])
        changed == change_cell_type(row, name, ttype[1])
    IN  IF converted = <<>> THEN [row |-> row, ret |-> "InvalidValueType"]
        ELSE IF ~qualified /\ panic THEN [row |-> row, ret |-> "InvalidCellData"]
        ELSE IF qualified /\ ttype # <<>>
        THEN IF changed = <<>> THEN [row |-> row, ret |-> "InvalidCellData"]
             ELSE [row |-> changed[1], ret |-> "Ok"]
        ELSE IF ~qualified
        THEN [row |-> update_cell_value(row, name,
                         unwrap_or(limiter.default, Value_empty(limiter.value_type))),
              ret |-> "Ok"]
        ELSE [row |-> row, ret |-> "Ok"]

\* The row loop of set_limiter from row i on: the rows before an error stay
\* as the loop left them.
RECURSIVE set_limiter_rows(_, _, _, _, _)
set_limiter_rows(rows, i, name, limiter, panic) ==
    IF i > Len(rows) THEN [rows |-> rows, ret |-> "Ok"]
    ELSE LET turn == set_limiter_row(rows[i], name, limiter, panic)
         IN  IF turn.ret # "Ok" THEN [rows |-> rows, ret |-> turn.ret]
             ELSE set_limiter_rows([rows EXCEPT ![i] = turn.row], i + 1,
                                   name, limiter, panic)

\* set_limiter setting the limiter on the column whatever the row loop returned
VD_set_limiter_replacing(d, column, limiter, panic) ==
    IF column >= Len(d.columns) THEN Res(d, "Panic")
    ELSE LET looped == set_limiter_rows(d.rows, 1, d.columns[column + 1].name,
                                        limiter, panic)
         IN  Res([d EXCEPT !.rows = looped.rows,
                           !.columns[column + 1] = Column_set_limiter(@, limiter)],
                 looped.ret)

VD_set_limiter(d, column, limiter, panic) ==
    IF column >= Len(d.columns) THEN Res(d, "Panic")
    ELSE LET looped == set_limiter_rows(d.rows, 1, d.columns[column + 1].name,
                                        limiter, panic)
         IN  IF looped.ret # "Ok" THEN Res([d EXCEPT !.rows = looped.rows], looped.ret)
             ELSE Res([d EXCEPT !.rows = looped.rows,
                                !.columns[column + 1] = Column_set_limiter(@, limiter)],
                      "Ok")

---------------------------------------------------------------------------
(* VirtualArray (src/src/virtual_array.rs): a row is a Vec<Value>.         *)

VA_new == [metas |-> <<>>, columns |-> <<>>, rows |-> <<>>]

VA_get_row_count(d) == Len(d.rows)

VA_get_column_count(d) == Len(d.columns)

VA_is_valid_cell_coordinate(d, x, y) ==
    x < VA_get_row_count(d) /\ y < VA_get_column_count(d)

VA_drop_data(d) == Res([d EXCEPT !.columns = <<>>, !.rows = <<>>], "Ok")

\* self.columns[column_index] is indexed unchecked
VA_rename_column(d, column_index, new_name) ==
    IF column_index >= Len(d.columns) THEN Res(d, "Panic")
    ELSE Res([d EXCEPT !.columns[column_index + 1].name = new_name], "Ok")

VA_set_column(d, column_index, value) ==
    IF ~VA_is_valid_cell_coordinate(d, 0, column_index) THEN Res(d, "OutOfRangeError")
    ELSE IF column_index >= Len(d.metas) THEN Res(d, "Panic")
    ELSE Res([d EXCEPT
                !.metas[column_index + 1] = update_width_from_value(@, value),
                !.rows = [r \in DOMAIN d.rows |->
                            [d.rows[r] EXCEPT ![column_index + 1] = value]]],
             "Ok")

VA_edit_row(d, row_index, values) ==
    IF Len(values) # VA_get_column_count(d) THEN Res(d, "InsufficientRowData")
    ELSE IF ~VA_is_valid_cell_coordinate(d, row_index, 0)
    THEN Res(d, "OutOfRangeError")
    ELSE IF \E i \in DOMAIN values : values[i] # <<>> /\ i > Len(d.metas)
    THEN Res(d, "Panic")
    ELSE Res([d EXCEPT
                !.metas = update_metas(d.metas, values),
                !.rows[row_index + 1] =
                    [i \in DOMAIN @ |->
                        IF values[i] # <<>> THEN values[i][1] ELSE @[i]]],
             "Ok")

VA_insert_row(d, row_index, source) ==
    IF row_index > VA_get_row_count(d) THEN Res(d, "InvalidColumn")
    ELSE IF source # <<>> /\ VA_get_column_count(d) # Len(source[1])
    THEN Res(d, "InvalidRowData")
    ELSE LET row == IF source # <<>> THEN source[1]
                    ELSE [i \in DOMAIN d.columns |-> Text(<<>>)]
         IN  Res([d EXCEPT
                    !.metas = [i \in DOMAIN d.metas |->
                                 IF i <= Len(row)
                                 THEN update_width_from_value(d.metas[i], row[i])
                                 ELSE d.metas[i]],
                    !.rows = InsertAt(d.rows, row_index, row)],
                 "Ok")

\* get_column_iterator(idx): s.get(column_index).unwrap() for every row
VA_get_column_iterator(d, column_index) ==
    [r \in DOMAIN d.rows |-> d.rows[r][column_index + 1]]

VA_delete_row(d, row_index) ==
    IF VA_get_row_count(d) = 0 \/ VA_get_row_count(d) < row_index
    THEN Res(d, "false")
    ELSE IF row_index >= Len(d.rows) THEN Res(d, "Panic")
    ELSE LET removed == d.rows[row_index + 1]
             after == [d EXCEPT !.rows = RemoveAt(d.rows, row_index)]
             to_be_updated(i) ==
                 /\ i <= Len(removed)
                 /\ get_width(removed[i]) >= d.metas[i].max_unicode_width
         IN  IF \E i \in DOMAIN d.metas : to_be_updated(i) /\ i > Len(d.columns)
             THEN Res(d, "Panic")
             ELSE Res([after EXCEPT
                         !.metas = [i \in DOMAIN d.metas |->
                                      IF to_be_updated(i)
                                      THEN set_width(d.metas[i],
                                             MaxWidth(VA_get_column_iterator(after, i - 1)))
                                      ELSE d.metas[i]]],
                      "true")

VA_insert_column(d, column_index, column_name) ==
    IF column_index > VA_get_column_count(d) THEN Res(d, "InvalidColumn")
    ELSE IF column_index > Len(d.metas) THEN Res(d, "Panic")
    ELSE LET meta == set_width(Meta_new(column_name), Len(column_name))
         IN  Res([metas |-> InsertAt(d.metas, column_index, meta),
                  columns |-> InsertAt(d.columns, column_index, Column_empty(column_name)),
                  rows |-> [r \in DOMAIN d.rows |->
                              InsertAt(d.rows[r], column_index, Text(<<>>))]],
                 "Ok")

VA_delete_column(d, column_index) ==
    IF ~VA_is_valid_cell_coordinate(d, 0, column_index) THEN Res(d, "OutOfRangeError")
    ELSE IF column_index >= Len(d.metas) THEN Res(d, "Panic")
    ELSE LET columns == RemoveAt(d.columns, column_index)
         IN  Res([metas |-> RemoveAt(d.metas, column_index),
                  columns |-> columns,
                  rows |-> IF columns = <<>> THEN <<>>
                           ELSE [r \in DOMAIN d.rows |->
                                   RemoveAt(d.rows[r], column_index)]],
                 "Ok")

VA_get_cell(d, x, y) ==
    IF ~VA_is_valid_cell_coordinate(d, x, y) THEN <<>>
    ELSE <<d.rows[x + 1][y + 1]>>

VA_set_cell(d, x, y, value) ==
    IF ~VA_is_valid_cell_coordinate(d, x, y) THEN Res(d, "OutOfRangeError")
    ELSE IF y >= Len(d.metas) THEN Res(d, "Panic")
    ELSE Res([d EXCEPT
                !.metas[y + 1] = update_width_from_value(@, value),
                !.rows[x + 1][y + 1] = value],
             "Ok")

\* Swaps columns and metas; the rows are not touched.
VA_move_column(d, src_index, target_index) ==
    IF src_index >= VA_get_column_count(d) \/ target_index >= VA_get_column_count(d)
    THEN Res(d, "OutOfRangeError")
    ELSE IF src_index # target_index /\ Max(src_index, target_index) >= Len(d.metas)
    THEN Res(d, "Panic")
    ELSE Res([d EXCEPT !.columns = MoveSeq(d.columns, src_index, target_index),
                       !.metas = MoveSeq(d.metas, src_index, target_index)], "Ok")

VA_move_row(d, src_index, target_index) ==
    IF src_index >= VA_get_row_count(d) \/ target_index >= VA_get_row_count(d)
    THEN Res(d, "OutOfRangeError")
    ELSE Res([d EXCEPT !.rows = MoveSeq(d.rows, src_index, target_index)], "Ok")

VA_set_row(d, row_index, values) ==
    IF Len(values) # VA_get_column_count(d) THEN Res(d, "InsufficientRowData")
    ELSE IF ~VA_is_valid_cell_coordinate(d, row_index, 0)
    THEN Res(d, "OutOfRangeError")
    ELSE IF Len(values) > Len(d.metas) THEN Res(d, "Panic")
    ELSE Res([d EXCEPT
                !.metas = update_metas(d.metas, Somes(values)),
                !.rows[row_index + 1] = values],
             "Ok")

---------------------------------------------------------------------------
(* VCont (src/src/vcont.rs): the operations both containers implement,     *)
(* dispatched on the container the program holds.                          *)

cont == IF sut = "VirtualData" THEN vd ELSE va

VCont_new == IF sut = "VirtualData" THEN VD_new ELSE VA_new

VCont_move_row(d, src_index, target_index) ==
    IF sut = "VirtualData" THEN VD_move_row(d, src_index, target_index)
    ELSE VA_move_row(d, src_index, target_index)

VCont_move_column(d, src_index, target_index) ==
    IF sut = "VirtualData" THEN VD_move_column(d, src_index, target_index)
    ELSE VA_move_column(d, src_index, target_index)

VCont_rename_column(d, column_index, new_name) ==
    IF sut = "VirtualData" THEN VD_rename_column(d, column_index, new_name)
    ELSE VA_rename_column(d, column_index, new_name)

VCont_set_column(d, column_index, value) ==
    IF sut = "VirtualData" THEN VD_set_column(d, column_index, value)
    ELSE VA_set_column(d, column_index, value)

VCont_edit_row(d, row_index, values) ==
    IF sut = "VirtualData" THEN VD_edit_row(d, row_index, values)
    ELSE VA_edit_row(d, row_index, values)

VCont_set_row(d, row_index, values) ==
    IF sut = "VirtualData" THEN VD_set_row(d, row_index, values)
    ELSE VA_set_row(d, row_index, values)

VCont_get_cell(d, x, y) ==
    IF sut = "VirtualData" THEN VD_get_cell(d, x, y) ELSE VA_get_cell(d, x, y)

VCont_set_cell(d, x, y, value) ==
    IF sut = "VirtualData" THEN VD_set_cell(d, x, y, value)
    ELSE VA_set_cell(d, x, y, value)

VCont_insert_row(d, row_index, source) ==
    IF sut = "VirtualData" THEN VD_insert_row(d, row_index, source)
    ELSE VA_insert_row(d, row_index, source)

VCont_delete_row(d, row_index) ==
    IF sut = "VirtualData" THEN VD_delete_row(d, row_index)
    ELSE VA_delete_row(d, row_index)

VCont_insert_column(d, column_index, column_name) ==
    IF sut = "VirtualData" THEN VD_insert_column(d, column_index, column_name)
    ELSE VA_insert_column(d, column_index, column_name)

VCont_delete_column(d, column_index) ==
    IF sut = "VirtualData" THEN VD_delete_column(d, column_index)
    ELSE VA_delete_column(d, column_index)

VCont_drop_data(d) ==
    IF sut = "VirtualData" THEN VD_drop_data(d) ELSE VA_drop_data(d)

---------------------------------------------------------------------------
(* The program: one container, and the calls made on it.                   *)

Call(op, x, y, arg, ret) == [op |-> op, x |-> x, y |-> y, arg |-> arg, ret |-> ret]

\* A call op(x, y, arg) on the container, with result res.  After a panic the
\* process is gone: nothing more is called.
Do(op, x, y, arg, res) ==
    /\ sut \in {"VirtualData", "VirtualArray"}
    /\ last.ret # "Panic"
    /\ IF sut = "VirtualData"
       THEN vd' = res.data /\ va' = va
       ELSE va' = res.data /\ vd' = vd
    /\ last' = Call(op, x, y, arg, res.ret)
    /\ UNCHANGED <<sut, parser, option, feed, lim>>

---------------------------------------------------------------------------
(* Parser (src/src/parser.rs).                                             *)

Parser_new ==
    [container |-> <<>>, remnant |-> <<>>, on_quote |-> FALSE, line_delimiter |-> <<>>]


Parser_reset(p) ==
    [p EXCEPT !.container = <<>>, !.remnant = <<>>, !.on_quote = FALSE]

\* String::replace("\r\n", "\n")
RECURSIVE replace_crlf(_)
replace_crlf(line) ==
    IF line = <<>> THEN <<>>
    ELSE IF Len(line) >= 2 /\ line[1] = "\r" /\ line[2] = "\n"
    THEN <<"\n">> \o replace_crlf(SubSeq(line, 3, Len(line)))
    ELSE <<line[1]>> \o replace_crlf(Tail(line))

Whitespace == {" ", "\n", "\r", "\t"}

\* str::split_whitespace(): the maximal runs of non-whitespace characters
RECURSIVE split_whitespace(_, _)
split_whitespace(line, word) ==
    IF line = <<>> THEN (IF word = <<>> THEN <<>> ELSE <<word>>)
    ELSE IF line[1] \in Whitespace
    THEN (IF word = <<>> THEN <<>> ELSE <<word>>) \o split_whitespace(Tail(line), <<>>)
    ELSE split_whitespace(Tail(line), Append(word, line[1]))

\* One turn of the while loop of feed_chunk on character i of line.  st holds
\* the loop's variables: container, value, on_quote, previous.
ScanChar(st, line, i, delim, consume_dquote) ==
    LET ch == line[i]
        peek == IF i < Len(line) THEN <<line[i + 1]>> ELSE <<>>
    IN  IF ch = unwrap_or(delim, ",")
        THEN IF ~st.on_quote
             THEN [st EXCEPT !.container = Append(@, st.value),
                             !.value = <<>>,
                             !.previous = ch]
             ELSE [st EXCEPT !.value = Append(@, ch)]
        ELSE IF ch = "\""
        THEN IF st.previous = "\""
             THEN [st EXCEPT !.previous = " ", !.value = Append(@, ch)]
             ELSE [st EXCEPT
                     !.on_quote = IF peek = <<"\"">> THEN @ ELSE ~@,
                     !.previous = ch,
                     !.value = IF consume_dquote THEN @ ELSE Append(@, ch)]
        ELSE [st EXCEPT !.previous = ch, !.value = Append(@, ch)]

\* The turns of the while loop on the characters i..n of line; the loop's
\* variables after a turn are bound once, as the member of a one-element set.
RECURSIVE Scan(_, _, _, _, _, _)
Scan(st, line, i, n, delim, consume_dquote) ==
    IF i > n THEN st
    ELSE CHOOSE r \in {Scan(next, line, i + 1, n, delim, consume_dquote) :
                         next \in {ScanChar(st, line, i, delim, consume_dquote)}} : TRUE

\* The loop's variables when feed_chunk starts on a parser p.
ScanStart(p) ==
    [container |-> p.container, value |-> p.remnant, on_quote |-> p.on_quote,
     previous |-> "0"]

\* str::strip_suffix(ch)
strip_suffix(value, ch) ==
    IF value # <<>> /\ value[Len(value)] = ch
    THEN <<SubSeq(value, 1, Len(value) - 1)>>
    ELSE <<>>

\* A feed_chunk that does not stash the partial field of an open quote.
feed_chunk_without_remnant(p, chunk, delim, space_dlimited, consume_dquote) ==
    LET line == replace_crlf(chunk)
        st == Scan(ScanStart(p), line, 1, Len(line), delim, consume_dquote)
        stripped == strip_suffix(st.value, unwrap_or(p.line_delimiter, "\n"))
    IN  IF space_dlimited
        THEN [parser |-> p, ret |-> <<split_whitespace(line, <<>>)>>, stripped |-> FALSE]
        ELSE IF st.on_quote
        THEN [parser |-> [p EXCEPT !.container = st.container,
                                   !.remnant = <<>>,
                                   !.on_quote = TRUE],
              ret |-> <<>>, stripped |-> FALSE]
        ELSE [parser |-> Parser_reset(p),
              ret |-> <<IF st.value # <<>> \/ st.previous = ","
                        THEN Append(st.container, unwrap_or(stripped, st.value))
                        ELSE st.container>>,
              stripped |-> (st.value # <<>> \/ st.previous = ",") /\ stripped # <<>>]

\* feed_chunk on a chunk of valid UTF-8: [parser |-> the parser afterwards,
\* ret |-> the returned Option<Vec<String>>, stripped |-> whether strip_suffix
\* removed a character].
feed_chunk(p, chunk, delim, space_dlimited, consume_dquote) ==
    LET line == replace_crlf(chunk)
    IN  IF space_dlimited
        THEN [parser |-> p, ret |-> <<split_whitespace(line, <<>>)>>, stripped |-> FALSE]
        ELSE
        LET st == Scan(ScanStart(p), line, 1, Len(line), delim, consume_dquote)
            stripped == strip_suffix(st.value, unwrap_or(p.line_delimiter, "\n"))
            container ==
                IF st.value # <<>> \/ st.previous = ","
                THEN Append(st.container, unwrap_or(stripped, st.value))
                ELSE st.container
        IN  IF st.on_quote
            THEN [parser |-> [p EXCEPT !.container = st.container,
                                       !.remnant = st.value,
                                       !.on_quote = TRUE],
                  ret |-> <<>>, stripped |-> FALSE]
            ELSE [parser |-> [p EXCEPT !.container = <<>>,
                                       !.remnant = <<>>,
                                       !.on_quote = FALSE],
                  ret |-> <<container>>,
                  stripped |-> (st.value # <<>> \/ st.previous = ",") /\ stripped # <<>>]

---------------------------------------------------------------------------
(* Reader (src/src/reader.rs).  A stream is the sequence of chunks that    *)
(* read_until(line_delimiter) cuts it into: every chunk but the last ends  *)
(* with the line delimiter.                                                *)

\* space_dlimited is the flag feed_chunk takes between delim and
\* consume_dquote; ReaderOption has no such field and the reader's calls
\* do not pass it, so a read runs with FALSE.
ReaderOption_new ==
    [trim |-> FALSE, read_header |-> TRUE, consume_dquote |-> FALSE,
     custom_header |-> <<>>, delimiter |-> <<>>, line_delimiter |-> <<>>,
     ignore_empty_row |-> FALSE, allow_invalid_string |-> FALSE,
     space_dlimited |-> FALSE]

\* str::trim()
RECURSIVE trim_start(_)
trim_start(s) ==
    IF s # <<>> /\ s[1] \in Whitespace THEN trim_start(Tail(s)) ELSE s

RECURSIVE trim_end(_)
trim_end(s) ==
    IF s # <<>> /\ s[Len(s)] \in Whitespace
    THEN trim_end(SubSeq(s, 1, Len(s) - 1))
    ELSE s

trim(s) == trim_end(trim_start(s))

trimmed(row) == [i \in DOMAIN row |-> trim(row[i])]

ALPHABET ==
    <<"a", "b", "c", "d", "e", "f", "g", "h", "i", "j", "k", "l", "m",
      "n", "o", "p", "q", "r", "s", "t", "u", "v", "w", "x", "y", "z">>

\* str::repeat(n)
RECURSIVE repeat(_, _)
repeat(s, n) == IF n = 0 THEN <<>> ELSE <<s>> \o repeat(s, n - 1)

\* <<names>>, or <<>> when index % 26 - 1 underflows (a panic).
make_arbitrary_column(size) ==
    IF \E index \in 1..size : index % Len(ALPHABET) = 0 THEN <<>>
    ELSE <<[i \in 1..size |->
              repeat(ALPHABET[i % Len(ALPHABET)], i \div Len(ALPHABET) + 1)]>>

RECURSIVE add_multiple_columns(_, _, _)
add_multiple_columns(data, column_names, idx) ==
    IF idx >= Len(column_names) THEN Res(data, "Ok")
    ELSE LET r == VD_insert_column(data, idx, column_names[idx + 1])
         IN  IF r.ret # "Ok" THEN r
             ELSE add_multiple_columns(r.data, column_names, idx + 1)

\* data.columns = names.map(Column::empty): the metas are not touched
set_columns(data, column_names) ==
    [data EXCEPT !.columns = [i \in DOMAIN column_names |-> Column_empty(column_names[i])]]

\* The header of a read: add_multiple_columns (data_from_stream) or the
\* assignment to data.columns (array_from_stream).
add_header(array, data, column_names) ==
    IF array THEN Res(set_columns(data, column_names), "Ok")
    ELSE add_multiple_columns(data, column_names, 0)

text_row(row) == [i \in DOMAIN row |-> Text(row[i])]

add_data_row(data, row) == VD_insert_row(data, VD_get_row_count(data), <<text_row(row)>>)

add_array_row(data, row) == VA_insert_row(data, VA_get_row_count(data), <<text_row(row)>>)

Read(data, ret, p, opt) == [data |-> data, ret |-> ret, parser |-> p, option |-> opt]

\* The while loop of data_from_stream (array = FALSE) and array_from_stream
\* (array = TRUE) from chunk i on.  data is the container under
\* construction; on an error it is dropped with the reader's local state.
\* Each value the loop binds with let (the row fed, the container after the
\* header, the container after the row) is bound once, as a member of a
\* one-element set.
RECURSIVE from_stream(_, _, _, _, _, _)

\* The names of the columns, given the first row: <<names>>, or <<>> when
\* make_arbitrary_column panics.
header_names(opt, row) ==
    IF opt.custom_header # <<>> THEN <<opt.custom_header>>
    ELSE IF opt.read_header THEN <<IF opt.trim THEN trimmed(row) ELSE row>>
    ELSE make_arbitrary_column(Len(row))

\* The container after the header branch: untouched when it has columns.
with_header(array, data, opt, row) ==
    IF Len(data.columns) # 0 THEN Res(data, "Ok")
    ELSE IF header_names(opt, row) = <<>> THEN Res(data, "Panic")
    ELSE add_header(array, data, header_names(opt, row)[1])

\* std::mem::take(&mut self.option.custom_header) in the header branch
take_header(data, opt) ==
    IF Len(data.columns) = 0 /\ opt.custom_header # <<>>
    THEN [opt EXCEPT !.custom_header = <<>>]
    ELSE opt

add_row(array, data, opt, row) ==
    IF array
    THEN add_array_row(data, IF opt.trim THEN trimmed(row) ELSE row)
    ELSE add_data_row(data, IF opt.trim THEN trimmed(row) ELSE row)

\* The loop after the row has been added (added is the result of add_row).
on_added(array, chunks, i, p, opt, data, added) ==
    IF added.ret # "Ok" THEN Read(data, added.ret, p, opt)
    ELSE from_stream(array, chunks, i + 1, p, opt, added.data)

\* The loop after the header branch (headed is the result of with_header).
on_headed(array, chunks, i, p, opt, data, row, headed) ==
    IF headed.ret # "Ok" THEN Read(data, headed.ret, p, take_header(data, opt))
    ELSE IF Len(data.columns) = 0 /\ opt.custom_header = <<>> /\ opt.read_header
    THEN from_stream(array, chunks, i + 1, p, take_header(data, opt), headed.data)
    ELSE IF Len(row) # Len(headed.data.columns)
    THEN Read(data, "InvalidRowData", p, take_header(data, opt))
    ELSE CHOOSE r \in {on_added(array, chunks, i, p, take_header(data, opt), data, added) :
                         added \in {add_row(array, headed.data, opt, row)}} : TRUE

\* The loop on a row that feed_chunk returned.
on_row(array, chunks, i, p, opt, data, row) ==
    IF Len(row) = 1 /\ trim(row[1]) = <<>>
    THEN IF opt.ignore_empty_row
         THEN from_stream(array, chunks, i + 1, p, opt, data)
         ELSE Read(data, "InvalidRowData", p, opt)
    ELSE IF Len(data.columns) = 0 /\ opt.custom_header # <<>>
            /\ Len(opt.custom_header) # Len(row)
    THEN Read(data, "InvalidColumn", p, opt)
    ELSE CHOOSE r \in {on_headed(array, chunks, i, p, opt, data, row, headed) :
                         headed \in {with_header(array, data, opt, row)}} : TRUE

\* The loop on the result fed of feed_chunk: None reads the next chunk.
on_chunk(array, chunks, i, opt, data, fed) ==
    IF fed.ret = <<>> THEN from_stream(array, chunks, i + 1, fed.parser, opt, data)
    ELSE on_row(array, chunks, i, fed.parser, opt, data, fed.ret[1])

from_stream(array, chunks, i, p, opt, data) ==
    IF i > Len(chunks) THEN Read(data, "Ok", p, opt)
    ELSE CHOOSE r \in {on_chunk(array, chunks, i, opt, data, fed) :
                         fed \in {feed_chunk(p, chunks[i], opt.delimiter, FALSE,
                                             opt.consume_dquote)}} : TRUE

data_from_stream(p, opt, chunks) ==
    from_stream(FALSE, chunks, 1, Parser_reset(p), opt, VD_new)

array_from_stream(p, opt, chunks) ==
    from_stream(TRUE, chunks, 1, Parser_reset(p), opt, VA_new)

\* The stream a text is read as: the chunks read_until cuts at delimiter.
RECURSIVE read_until(_, _, _)
read_until(text, line_delimiter, chunk) ==
    IF text = <<>> THEN (IF chunk = <<>> THEN <<>> ELSE <<chunk>>)
    ELSE IF text[1] = line_delimiter
    THEN <<Append(chunk, text[1])>> \o read_until(Tail(text), line_delimiter, <<>>)
    ELSE read_until(Tail(text), line_delimiter, Append(chunk, text[1]))

---------------------------------------------------------------------------
(* Building a ValueLimiter (src/src/value.rs).  The fields are private: a  *)
(* limiter is ValueLimiter::default() or the result of from_line, changed  *)
(* by set_type, set_variant and set_pattern.                               *)

LIMITER_ATTRIBUTE_LEN == 4

\* str::to_lowercase(), on the capitals the model writes type names with
to_lowercase(s) ==
    [i \in DOMAIN s |-> CASE s[i] = "N" -> "n" [] s[i] = "T" -> "t" [] OTHER -> s[i]]

\* impl FromStr for ValueType: <<type>>, or <<>> for InvalidValueType
ValueType_from_str(s) ==
    IF to_lowercase(s) = <<"n", "u", "m", "b", "e", "r">> THEN <<"Number">>
    ELSE IF to_lowercase(s) = <<"t", "e", "x", "t">> THEN <<"Text">>
    ELSE <<>>

\* Regex::new on the pattern sources the model passes: <<regex>>, or <<>>
\* for a syntax error (the unclosed group "(").
Regex_new(src) ==
    IF src = <<"^", "x">> THEN <<"^x">>
    ELSE IF src = <<"^", "[", "0", "-", "9", "]", "+", "$">> THEN <<"^[0-9]+$">>
    ELSE <<>>

set_type(l, column_type) == [l EXCEPT !.value_type = column_type]

\* set_variant with the membership test of the default left out
set_variant_unchecked(l, default, variants) ==
    Res([l EXCEPT !.default = <<default>>, !.variant = <<variants>>], "Ok")

set_variant(l, default, variants) ==
    IF ~contains(variants, default) THEN Res(l, "InvalidLimiter")
    ELSE Res([l EXCEPT !.default = <<default>>, !.variant = <<variants>>], "Ok")

set_pattern(l, default, pattern) ==
    IF ~is_match(pattern, to_string(default)) THEN Res(l, "InvalidLimiter")
    ELSE Res([l EXCEPT !.default = <<default>>, !.pattern = <<pattern>>], "Ok")

\* for var in variants.split_whitespace() { values.push(Value::from_str(var, vt)?) }:
\* <<values>>, or <<>> for InvalidValueType
RECURSIVE variant_values(_, _)
variant_values(words, vt) ==
    IF words = <<>> THEN << <<>> >>
    ELSE IF from_str(words[1], vt) = <<>> THEN <<>>
    ELSE LET rest == variant_values(Tail(words), vt)
         IN  IF rest = <<>> THEN <<>> ELSE << from_str(words[1], vt) \o rest[1] >>

\* from_line once the type is read: data is <<limiter>>, or <<>> on an error
from_line_typed(vt, default, variants, pattern) ==
    LET typed == set_type(ValueLimiter_default, vt)
        dflt == from_str(default, vt)
        values == variant_values(split_whitespace(variants, <<>>), vt)
    IN  IF default # <<>>
        THEN IF dflt = <<>> THEN Res(<<>>, "InvalidValueType")
             ELSE IF variants # <<>>
             THEN IF values = <<>> THEN Res(<<>>, "InvalidValueType")
                  ELSE IF set_variant(typed, dflt[1], values[1]).ret # "Ok"
                  THEN Res(<<>>, "InvalidLimiter")
                  ELSE Res(<<set_variant(typed, dflt[1], values[1]).data>>, "Ok")
             ELSE IF pattern # <<>>
             THEN IF Regex_new(pattern) = <<>> THEN Res(<<>>, "Panic")
                  ELSE IF set_pattern(typed, dflt[1], Regex_new(pattern)[1]).ret # "Ok"
                  THEN Res(<<>>, "InvalidLimiter")
                  ELSE Res(<<set_pattern(typed, dflt[1], Regex_new(pattern)[1]).data>>, "Ok")
             ELSE Res(<<[typed EXCEPT !.default = dflt]>>, "Ok")
        ELSE IF pattern # <<>> \/ variants # <<>> THEN Res(<<>>, "InvalidLimiter")
        ELSE Res(<<typed>>, "Ok")

\* ValueLimiter::from_line(attributes)
from_line(attributes) ==
    IF Len(attributes) # LIMITER_ATTRIBUTE_LEN THEN Res(<<>>, "InvalidRowData")
    ELSE IF ValueType_from_str(attributes[1]) = <<>> THEN Res(<<>>, "InvalidValueType")
    ELSE from_line_typed(ValueType_from_str(attributes[1])[1],
                         attributes[2], attributes[3], attributes[4])

---------------------------------------------------------------------------
(* Initial states.                                                         *)

NoCall == Call("new", 0, 0, <<>>, "Ok")

NoFeed == [chunks |-> <<>>, ret |-> <<>>, stripped |-> FALSE, eof |-> FALSE]

\* VirtualData::new() or VirtualArray::new(), and a Reader::new() to read with.
InitCont ==
    /\ sut \in {"VirtualData", "VirtualArray"}
    /\ vd = VD_new
    /\ va = VA_new
    /\ last = NoCall
    /\ parser = Parser_new
    /\ option = ReaderOption_new
    /\ feed = NoFeed
    /\ lim = ValueLimiter_default

---------------------------------------------------------------------------
(* SpecMove: tables of up to MoveMaxCols columns and MoveMaxRows rows,     *)
(* built by insert_column and insert_row or read from a stream, and then   *)
(* moved by move_row and move_column.                                      *)

MoveMaxCols == 3

MoveMaxRows == 3

Letters == <<"a", "b", "c", "d", "e", "f">>

\* As many column names as columns: a, b, c, ...
MoveNames == [i \in 1..MoveMaxCols |-> <<Letters[i]>>]

\* The rows of a table: row k holds the texts "k1", "k2", ... (k a letter), so
\* the cells of a row differ from each other and the rows differ from each
\* other.
MoveRow(k) == [i \in 1..MoveMaxCols |-> <<Letters[k], DigitChars[i + 1]>>]

Elems(seq) == {seq[i] : i \in DOMAIN seq}

\* Vec<String>::join(sep)
RECURSIVE join(_, _)
join(strings, sep) ==
    IF strings = <<>> THEN <<>>
    ELSE IF Len(strings) = 1 THEN strings[1]
    ELSE strings[1] \o sep \o join(Tail(strings), sep)

\* The csv text of a header and n rows, every line ended by "\n"
MoveText(n) ==
    join([k \in 1..(n + 1) |->
            join(IF k = 1 THEN MoveNames ELSE MoveRow(k - 1), <<",">>) \o <<"\n">>],
         <<>>)

\* A read: data_from_stream or array_from_stream on the chunks of a stream.
\* An Ok result is the program's container from then on.
DoRead(chunks) ==
    \E res \in {IF sut = "VirtualData"
                THEN data_from_stream(parser, option, chunks)
                ELSE array_from_stream(parser, option, chunks)} :
        /\ sut \in {"VirtualData", "VirtualArray"}
        /\ last.ret # "Panic"
        /\ vd' = IF sut = "VirtualData" /\ res.ret = "Ok" THEN res.data ELSE vd
        /\ va' = IF sut = "VirtualArray" /\ res.ret = "Ok" THEN res.data ELSE va
        /\ parser' = res.parser
        /\ option' = res.option
        /\ last' = Call(IF sut = "VirtualData" THEN "data_from_stream"
                        ELSE "array_from_stream", 0, 0, chunks, res.ret)
        /\ UNCHANGED <<sut, feed, lim>>

\* The table is built before it is moved.
Building == last.op \in {"new", "insert_column", "insert_row"}

\* The program inserts only columns whose name is not in the table yet.
Mv_insert_column ==
    \E i \in 0..MoveMaxCols, n \in 1..MoveMaxCols :
        /\ Building
        /\ Len(cont.columns) < MoveMaxCols
        /\ \A c \in DOMAIN cont.columns : cont.columns[c].name # MoveNames[n]
        /\ Do("insert_column", i, 0, MoveNames[n],
              VCont_insert_column(cont, i, MoveNames[n]))

\* The program inserts rows once the columns are there, and only rows that
\* are not in the table yet.
Mv_insert_row ==
    \E i \in 0..MoveMaxRows, k \in 1..MoveMaxRows :
        /\ Building
        /\ Len(cont.rows) < MoveMaxRows
        /\ Len(cont.columns) = MoveMaxCols
        /\ LET source == <<text_row(MoveRow(k))>>
               res == VCont_insert_row(cont, i, source)
           IN  /\ res.ret = "Ok" => res.data.rows[i + 1] \notin Elems(cont.rows)
               /\ Do("insert_row", i, 0, source, res)

Mv_read ==
    \E n \in 0..MoveMaxRows :
        /\ last.op = "new"
        /\ DoRead(read_until(MoveText(n), "\n", <<>>))

Mv_move_row ==
    \E src \in 0..MoveMaxRows, target \in 0..MoveMaxRows :
        Do("move_row", src, target, <<>>, VCont_move_row(cont, src, target))

Mv_move_column ==
    \E src \in 0..MoveMaxCols, target \in 0..MoveMaxCols :
        Do("move_column", src, target, <<>>, VCont_move_column(cont, src, target))

NextMove ==
    Mv_insert_column \/ Mv_insert_row \/ Mv_read \/ Mv_move_row \/ Mv_move_column

SpecMove == InitCont /\ [][NextMove]_vars

\* The sequence seq after its element at s has been moved to t: the
\* elements between the two places shift by one towards s.
Moved(seq, s, t) ==
    [i \in 1..Len(seq) |->
        IF i - 1 = t THEN seq[s + 1]
        ELSE IF s < t /\ s <= i - 1 /\ i - 1 < t THEN seq[i + 1]
        ELSE IF t < s /\ t < i - 1 /\ i - 1 <= s THEN seq[i - 1]
        ELSE seq[i]]

\* What a move(src, target) of a sequence of count elements has to do.
MoveContract(before, after, src, target, ret) ==
    IF src < Len(before) /\ target < Len(before)
    THEN ret = "Ok" /\ after = Moved(before, src, target)
    ELSE ret = "OutOfRangeError" /\ after = before

\* C1: in both containers move_row(src, target) and move_column(src, target)
\* with both indices below the count succeed and leave the element of src at
\* target, the elements between the two places shifted by one towards src
\* and the others in place; with an index at or above the count they return
\* OutOfRangeError and change nothing.
C1_MovePermutes ==
    [][/\ last'.op = "move_row" =>
            MoveContract(cont.rows, cont'.rows, last'.x, last'.y, last'.ret)
       /\ last'.op = "move_column" =>
            MoveContract(cont.columns, cont'.columns, last'.x, last'.y, last'.ret)]_vars

\* C2: after a successful move_column of a VirtualArray every row holds,
\* under each column at its new index, the value it held under that column
\* before the move.
C2_RowsFollowColumns ==
    [][(sut = "VirtualArray" /\ last'.op = "move_column" /\ last'.ret = "Ok") =>
         \A r \in DOMAIN va.rows :
            \A i \in DOMAIN va.columns, j \in DOMAIN va'.columns :
                va.columns[i] = va'.columns[j] => va'.rows[r][j] = va.rows[r][i]]_vars

---------------------------------------------------------------------------
(* SpecParser: a Parser fed the chunks of streams, under each setting of   *)
(* the field delimiter, the line delimiter, quote consumption and the      *)
(* space-delimited flag.  feed.chunks holds the chunks fed for the row     *)
(* under construction, up to the chunk that returned it.                   *)

\* The most characters fed for one row
MaxRowLen == 5

InitParser ==
    /\ sut = "Parser"
    /\ vd = VD_new
    /\ va = VA_new
    /\ last = NoCall
    /\ feed = NoFeed
    /\ lim = ValueLimiter_default
    /\ \E d \in {<<>>, <<";">>}, l \in {<<>>, <<"|">>}, c \in BOOLEAN, sp \in BOOLEAN :
          /\ option = [ReaderOption_new EXCEPT !.delimiter = d,
                                               !.line_delimiter = l,
                                               !.consume_dquote = c,
                                               !.space_dlimited = sp]
          /\ parser = [Parser_new EXCEPT !.line_delimiter = l]

\* The field delimiter and the line delimiter in force
Delim == unwrap_or(option.delimiter, ",")

LineDelim == unwrap_or(parser.line_delimiter, "\n")

\* The characters of a line: a letter, the quote, the field delimiter
BodyChars == {"a", "\"", Delim}

Bodies(n) == UNION {[1..k -> BodyChars] : k \in 0..n}

\* The chunks read_until can cut of at most n characters: a body and the line
\* delimiter, or (the end of the stream) a body that is not empty.
Chunks(n) ==
    {Append(b, LineDelim) : b \in Bodies(n - 1)} \cup (Bodies(n) \ {<<>>})

\* The rows the documentation gives as examples, with the delimiters in force:
\* a,"b,c",d and a,"b""c",d and the row a,"b<line delimiter>c" in two chunks.
QuotedDelimiter == <<"a", Delim, "\"", "b", Delim, "c", "\"", Delim, "d">>

QuotedQuote == <<"a", Delim, "\"", "b", "\"", "\"", "c", "\"", Delim, "d">>

QuotedLine == << <<"a", Delim, "\"", "b", LineDelim>>, <<"c", "\"">> >>

ExampleRows == {<<QuotedDelimiter>>, <<QuotedQuote>>, QuotedLine}

RECURSIVE TotalLen(_)
TotalLen(chunks) ==
    IF chunks = <<>> THEN 0 ELSE Len(chunks[1]) + TotalLen(Tail(chunks))

\* The chunks that can come next: any chunk within the bound, or the next
\* chunk of an example row.
NextChunks ==
    (IF TotalLen(feed.chunks) < MaxRowLen
     THEN Chunks(MaxRowLen - TotalLen(feed.chunks)) ELSE {})
    \cup {e[Len(feed.chunks) + 1] : e \in {x \in ExampleRows :
             /\ Len(x) > Len(feed.chunks)
             /\ SubSeq(x, 1, Len(feed.chunks)) = feed.chunks}}

\* The reader feeds the next chunk of the stream; a chunk that does not end
\* with the line delimiter is the last one of its stream.
P_feed_chunk ==
    \E chunk \in NextChunks :
        LET fed == feed_chunk(parser, chunk, option.delimiter,
                              option.space_dlimited, option.consume_dquote)
        IN  /\ sut = "Parser"
            /\ feed.ret = <<>>
            /\ ~feed.eof
            /\ parser' = fed.parser
            /\ feed' = [chunks |-> Append(feed.chunks, chunk),
                        ret |-> fed.ret,
                        stripped |-> fed.stripped,
                        eof |-> chunk[Len(chunk)] # LineDelim]
            /\ UNCHANGED <<sut, vd, va, last, option, lim>>

\* The reader takes the returned row and goes on to the next chunk of the
\* stream; the parser is as feed_chunk left it.
P_take_row ==
    /\ sut = "Parser"
    /\ feed.ret # <<>>
    /\ ~feed.eof
    /\ feed' = NoFeed
    /\ UNCHANGED <<sut, vd, va, last, option, parser, lim>>

\* The reader starts the next read: Parser::reset()
P_reset ==
    /\ sut = "Parser"
    /\ feed # NoFeed
    /\ parser' = Parser_reset(parser)
    /\ feed' = NoFeed
    /\ UNCHANGED <<sut, vd, va, last, option, lim>>

NextParser == P_feed_chunk \/ P_take_row \/ P_reset

SpecParser == InitParser /\ [][NextParser]_vars

---------------------------------------------------------------------------
(* The quotes of a text as the documentation reads them: a quote followed  *)
(* by a quote is an escaped pair, one literal quote that opens and closes  *)
(* nothing; any other quote opens or closes a quoted part.                 *)

\* The places of the field delimiters outside quotes in line[i..], the text
\* before i leaving the quote state open or not.
RECURSIVE UnquotedDelims(_, _, _)
UnquotedDelims(line, i, open) ==
    IF i > Len(line) THEN {}
    ELSE IF line[i] = "\""
    THEN IF i < Len(line) /\ line[i + 1] = "\""
         THEN UnquotedDelims(line, i + 2, open)
         ELSE UnquotedDelims(line, i + 1, ~open)
    ELSE (IF line[i] = Delim /\ ~open THEN {i} ELSE {})
         \cup UnquotedDelims(line, i + 1, open)

\* The places where feed_chunk, on a parser that holds nothing, ends a field
\* of line and starts the next.
SplitPlaces(line) ==
    LET at(n) == Scan(ScanStart(Parser_reset(parser)), line, 1, n,
                      option.delimiter, option.consume_dquote)
    IN  {i \in 1..Len(line) : Len(at(i).container) > Len(at(i - 1).container)}

\* The quote state feed_chunk is in after the first n characters of line.
QuoteAfter(line, n) ==
    Scan(ScanStart(Parser_reset(parser)), line, 1, n,
         option.delimiter, option.consume_dquote).on_quote

\* The first chunk of a row has just been fed, in delimiter mode.
FirstChunkFed == sut = "Parser" /\ ~option.space_dlimited /\ Len(feed.chunks) = 1

\* C3: feed_chunk splits a chunk only at field delimiters outside quotes; a
\* quote followed by a quote leaves the quote state as it is; with quote
\* consumption on, a,"b,c",d gives the fields a | b,c | d and a,"b""c",d
\* gives a | b"c | d.
C3_SplitsOutsideQuotes ==
    FirstChunkFed =>
        LET chunk == feed.chunks[1]
        IN  /\ SplitPlaces(chunk) \subseteq UnquotedDelims(chunk, 1, FALSE)
            /\ \A i \in 1..(Len(chunk) - 1) :
                  (chunk[i] = "\"" /\ chunk[i + 1] = "\"") =>
                      QuoteAfter(chunk, i) = QuoteAfter(chunk, i - 1)
            /\ (option.consume_dquote /\ chunk = QuotedDelimiter) =>
                  feed.ret = << <<<<"a">>, <<"b", Delim, "c">>, <<"d">>>> >>
            /\ (option.consume_dquote /\ chunk = QuotedQuote) =>
                  feed.ret = << <<<<"a">>, <<"b", "\"", "c">>, <<"d">>>> >>

IsPrefix(a, b) == Len(a) <= Len(b) /\ SubSeq(b, 1, Len(a)) = a

\* The second field of the row a,"b<line delimiter>c": with its quotes
\* unless they are consumed.
QuotedLineField ==
    IF option.consume_dquote THEN <<"b", LineDelim, "c">>
    ELSE <<"\"", "b", LineDelim, "c", "\"">>

LineEnded ==
    LET chunk == feed.chunks[Len(feed.chunks)]
    IN  chunk[Len(chunk)] = LineDelim

\* C5: when feed_chunk returns a row it has stripped the line delimiter that
\* ends the line from the last field, if the line has one, and nothing
\* else (no character from inside quotes), and the parser is left with the
\* quote state closed, the remnant empty and the row buffer empty.
C5_StripsLineEndOnly ==
    (sut = "Parser" /\ ~option.space_dlimited /\ feed.ret # <<>>) =>
        /\ feed.stripped <=> LineEnded
        /\ ~parser.on_quote
        /\ parser.remnant = <<>>
        /\ parser.container = <<>>

\* C6: under every field delimiter, a line that ends right after a field
\* delimiter outside quotes (before the line delimiter, if there is one)
\* gives a row whose last field is empty and that has one more field than
\* the line has delimiters outside quotes.
C6_TrailingDelimiterField ==
    (FirstChunkFed /\ feed.ret # <<>>) =>
        LET chunk == feed.chunks[1]
            body == IF LineEnded THEN SubSeq(chunk, 1, Len(chunk) - 1) ELSE chunk
            row == feed.ret[1]
        IN  (body # <<>> /\ Len(body) \in UnquotedDelims(body, 1, FALSE)) =>
                /\ row # <<>>
                /\ row[Len(row)] = <<>>
                /\ Len(row) = Cardinality(UnquotedDelims(body, 1, FALSE)) + 1

---------------------------------------------------------------------------
(* Spec: a container of up to MaxCols columns and MaxRows rows, read from  *)
(* a stream or built and changed by the operations of VCont and of         *)
(* VirtualData.                                                            *)

MaxCols == 2

MaxRows == 1

\* Column names: a word and a decimal number
Names == {<<"a">>, <<"1">>}

Values == {Text(<<>>), Text(<<"x">>)}

\* &[Value] and &[Option<Value>] arguments of every length up to MaxCols
RowValues == UNION {[1..n -> Values] : n \in 0..MaxCols}

OptionValues == {<<>>} \cup {<<v>> : v \in Values}

RowOptions == UNION {[1..n -> OptionValues] : n \in 0..MaxCols}

\* The csv text of lines of fields, every line ended by "\n"
CsvText(lines) ==
    join([k \in DOMAIN lines |-> join(lines[k], <<",">>) \o <<"\n">>], <<>>)

\* The streams read: a header of one or two names, and no row or one row.
Streams ==
    {CsvText(<<header>> \o rows) :
        header \in {<<<<"a">>>>, <<<<"a">>, <<"1">>>>},
        rows \in {<<>>, <<[i \in 1..MaxCols |-> <<"x">>]>>,
                  <<[i \in 1..1 |-> <<"x">>]>>}}

\* The container grows while it holds fewer than MaxCols columns and metas.
HasRoom == Len(cont.columns) < MaxCols /\ Len(cont.metas) < MaxCols

Op_read ==
    \E text \in Streams :
        /\ last.op = "new"
        /\ DoRead(read_until(text, "\n", <<>>))

Op_insert_column ==
    \E i \in 0..MaxCols, name \in Names :
        /\ HasRoom
        /\ Do("insert_column", i, 0, name, VCont_insert_column(cont, i, name))

Op_insert_column_with_type ==
    \E i \in 0..MaxCols, name \in Names, placeholder \in OptionValues :
        /\ sut = "VirtualData"
        /\ HasRoom
        /\ Do("insert_column_with_type", i, 0, name,
              VD_insert_column_with_type(vd, i, name, "Text", <<>>, placeholder))

Op_delete_column ==
    \E i \in 0..MaxCols :
        Do("delete_column", i, 0, <<>>, VCont_delete_column(cont, i))

Op_rename_column ==
    \E i \in 0..MaxCols, name \in Names :
        Do("rename_column", i, 0, name, VCont_rename_column(cont, i, name))

Op_move_column ==
    \E src \in 0..MaxCols, target \in 0..MaxCols :
        Do("move_column", src, target, <<>>, VCont_move_column(cont, src, target))

Op_drop_data == Do("drop_data", 0, 0, <<>>, VCont_drop_data(cont))

Op_insert_row ==
    \E i \in 0..MaxRows, source \in {<<>>} \cup {<<row>> : row \in RowValues} :
        /\ Len(cont.rows) < MaxRows
        /\ Do("insert_row", i, 0, source, VCont_insert_row(cont, i, source))

Op_delete_row ==
    \E i \in 0..(MaxRows + 1) :
        Do("delete_row", i, 0, <<>>, VCont_delete_row(cont, i))

Op_move_row ==
    \E src \in 0..MaxRows, target \in 0..MaxRows :
        Do("move_row", src, target, <<>>, VCont_move_row(cont, src, target))

Op_set_cell ==
    \E x \in 0..MaxRows, y \in 0..MaxCols, value \in Values :
        Do("set_cell", x, y, value, VCont_set_cell(cont, x, y, value))

Op_set_row ==
    \E i \in 0..MaxRows, values \in RowValues :
        Do("set_row", i, 0, values, VCont_set_row(cont, i, values))

Op_edit_row ==
    \E i \in 0..MaxRows, values \in RowOptions :
        Do("edit_row", i, 0, values, VCont_edit_row(cont, i, values))

Op_set_column ==
    \E i \in 0..MaxCols, value \in Values :
        Do("set_column", i, 0, value, VCont_set_column(cont, i, value))

Next ==
    \/ Op_read
    \/ Op_insert_column
    \/ Op_insert_column_with_type
    \/ Op_delete_column
    \/ Op_rename_column
    \/ Op_move_column
    \/ Op_drop_data
    \/ Op_insert_row
    \/ Op_delete_row
    \/ Op_move_row
    \/ Op_set_cell
    \/ Op_set_row
    \/ Op_edit_row
    \/ Op_set_column

Spec == InitCont /\ [][Next]_vars

\* C7: in every container, read or built, there are as many metas as
\* columns, and the meta at each index is the one made for the column at
\* that index.
C7_MetasFollowColumns ==
    sut \in {"VirtualData", "VirtualArray"} =>
        /\ Len(cont.metas) = Len(cont.columns)
        /\ \A i \in DOMAIN cont.columns : cont.metas[i].of = cont.columns[i].born

Unique(columns) ==
    \A i, j \in DOMAIN columns : i # j => columns[i].name # columns[j].name

\* C8: insert_column, insert_column_with_type and rename_column, called on a
\* VirtualData whose column names differ from each other with any name (a
\* decimal number included), leave the column names different from each
\* other.
C8_NamesStayUnique ==
    [][(/\ sut = "VirtualData"
        /\ last'.op \in {"insert_column", "insert_column_with_type", "rename_column"}
        /\ Unique(vd.columns)) => Unique(vd'.columns)]_vars

\* C9: every row holds exactly one value for each column and none for
\* any other: the keys of a VirtualData row are the column names, as many
\* as there are columns; a VirtualArray row is as long as the columns.
C9_RowsMatchColumns ==
    /\ sut = "VirtualData" =>
          \A r \in DOMAIN vd.rows :
              /\ DOMAIN vd.rows[r] = {vd.columns[i].name : i \in DOMAIN vd.columns}
              /\ Cardinality(DOMAIN vd.rows[r]) = Len(vd.columns)
    /\ sut = "VirtualArray" =>
          \A r \in DOMAIN va.rows : Len(va.rows[r]) = Len(va.columns)

---------------------------------------------------------------------------
(* SpecLimit: a VirtualData of up to LimMaxCols columns with limiters and  *)
(* up to LimMaxRows rows.                                                  *)

LimMaxCols == 1

LimMaxRows == 2

InitLimit == InitCont /\ sut = "VirtualData"

LimNames == [i \in 1..LimMaxCols |-> <<Letters[i]>>]

\* ValueLimiter::default() after set_type(ValueType::Number)
LimNumber == [ValueLimiter_default EXCEPT !.value_type = "Number"]

\* ValueLimiter::default() after set_variant(Text("x"), [Text("x"), Text("y")])
LimVariant ==
    [ValueLimiter_default EXCEPT !.default = <<Text(<<"x">>)>>,
                                 !.variant = <<<<Text(<<"x">>), Text(<<"y">>)>>>>]

Limiters == {ValueLimiter_default, LimNumber, LimVariant}

\* The typed columns inserted: a type, and no limiter or a limiter of the type
TypedColumns ==
    {<<"Text", <<>>>>, <<"Number", <<LimNumber>>>>, <<"Text", <<LimVariant>>>>}

LimValues == {Text(<<"x">>), Text(<<"y">>), Text(<<"5">>), Number(5)}

LimOptionValues == {<<>>} \cup {<<v>> : v \in LimValues}

LimRowValues == [1..LimMaxCols -> LimValues]

LimRowOptions == [1..LimMaxCols -> LimOptionValues]

LimHasRoom == Len(vd.columns) < LimMaxCols

Lim_insert_column ==
    \E i \in 0..LimMaxCols, n \in 1..LimMaxCols :
        /\ LimHasRoom
        /\ Do("insert_column", i, 0, LimNames[n], VD_insert_column(vd, i, LimNames[n]))

Lim_insert_column_with_type ==
    \E i \in 0..LimMaxCols, n \in 1..LimMaxCols, typed \in TypedColumns,
       placeholder \in LimOptionValues :
        /\ LimHasRoom
        /\ Do("insert_column_with_type", i, 0, <<LimNames[n], typed, placeholder>>,
              VD_insert_column_with_type(vd, i, LimNames[n], typed[1], typed[2],
                                         placeholder))

Lim_set_limiter ==
    \E i \in 0..(LimMaxCols - 1), limiter \in Limiters, panic \in BOOLEAN :
        /\ i < Len(vd.columns)
        /\ Do("set_limiter", i, 0, <<limiter, panic>>,
              VD_set_limiter(vd, i, limiter, panic))

Lim_insert_row ==
    \E i \in 0..LimMaxRows, source \in {<<>>} \cup {<<row>> : row \in LimRowValues} :
        /\ Len(vd.rows) < LimMaxRows
        /\ Do("insert_row", i, 0, source, VD_insert_row(vd, i, source))

Lim_delete_row ==
    \E i \in 0..(LimMaxRows + 1) :
        Do("delete_row", i, 0, <<>>, VD_delete_row(vd, i))

Lim_delete_column ==
    \E i \in 0..LimMaxCols :
        Do("delete_column", i, 0, <<>>, VD_delete_column(vd, i))

Lim_set_cell ==
    \E x \in 0..LimMaxRows, y \in 0..LimMaxCols, value \in LimValues :
        Do("set_cell", x, y, value, VD_set_cell(vd, x, y, value))

Lim_set_row ==
    \E i \in 0..LimMaxRows, values \in LimRowValues :
        Do("set_row", i, 0, values, VD_set_row(vd, i, values))

Lim_edit_row ==
    \E i \in 0..LimMaxRows, values \in LimRowOptions :
        Do("edit_row", i, 0, values, VD_edit_row(vd, i, values))

Lim_set_column ==
    \E i \in 0..LimMaxCols, value \in LimValues :
        Do("set_column", i, 0, value, VD_set_column(vd, i, value))

NextLimit ==
    \/ Lim_insert_column
    \/ Lim_insert_column_with_type
    \/ Lim_set_limiter
    \/ Lim_insert_row
    \/ Lim_delete_row
    \/ Lim_delete_column
    \/ Lim_set_cell
    \/ Lim_set_row
    \/ Lim_edit_row
    \/ Lim_set_column

SpecLimit == InitLimit /\ [][NextLimit]_vars

\* Every cell qualifies the limiter of its column.
Qualified ==
    \A r \in DOMAIN vd.rows, c \in DOMAIN vd.columns :
        vd.columns[c].name \in DOMAIN vd.rows[r] =>
            qualify(vd.columns[c].limiter, vd.rows[r][vd.columns[c].name])

\* C10: every successful mutation of a VirtualData (insert_row, set_cell,
\* set_row, edit_row, set_column, insert_column_with_type with a placeholder,
\* set_limiter) whose cells all qualify the limiters of their columns leaves
\* every cell qualifying the limiter of its column.
C10_CellsStayQualified ==
    [][(/\ sut = "VirtualData"
        /\ Qualified
        /\ last'.ret \in {"Ok", "true", "false"}) => Qualified']_vars

---------------------------------------------------------------------------
(* SpecVariant: a VirtualData of up to VarMaxCols columns, each without a  *)
(* limiter or limited to the variants x and y, and up to VarMaxRows rows.  *)

VarMaxCols == 1

VarMaxRows == 1

VarNames == {<<"a">>, <<"1">>}

VarLimiters == {ValueLimiter_default, LimVariant}

VarRowValues == [1..VarMaxCols -> LimValues]

Var_insert_column_with_type ==
    \E i \in 0..VarMaxCols, name \in VarNames, limiter \in VarLimiters :
        /\ Len(vd.columns) < VarMaxCols
        /\ Do("insert_column_with_type", i, 0, <<name, limiter>>,
              VD_insert_column_with_type(vd, i, name, "Text", <<limiter>>, <<>>))

Var_set_limiter ==
    \E i \in 0..(VarMaxCols - 1), limiter \in VarLimiters, panic \in BOOLEAN :
        /\ i < Len(vd.columns)
        /\ Do("set_limiter", i, 0, <<limiter, panic>>,
              VD_set_limiter(vd, i, limiter, panic))

Var_insert_row ==
    \E i \in 0..(VarMaxRows + 1), source \in {<<>>} \cup {<<row>> : row \in VarRowValues} :
        /\ Len(vd.rows) < VarMaxRows
        /\ Do("insert_row", i, 0, source, VD_insert_row(vd, i, source))

Var_set_cell ==
    \E x \in 0..VarMaxRows, y \in 0..VarMaxCols, value \in LimValues :
        Do("set_cell", x, y, value, VD_set_cell(vd, x, y, value))

Var_delete_row ==
    \E i \in 0..(VarMaxRows - 1) :
        /\ i < Len(vd.rows)
        /\ Do("delete_row", i, 0, <<>>, VD_delete_row(vd, i))

Var_delete_column ==
    \E i \in 0..VarMaxCols :
        Do("delete_column", i, 0, <<>>, VD_delete_column(vd, i))

NextVariant ==
    \/ Var_insert_column_with_type
    \/ Var_set_limiter
    \/ Var_insert_row
    \/ Var_set_cell
    \/ Var_delete_row
    \/ Var_delete_column

SpecVariant == InitLimit /\ [][NextVariant]_vars

\* Column c (1-based) of the container before the step has a variant set.
HasVariant(c) == vd.columns[c].limiter.variant # <<>>

\* value is one of the variants listed for column c.
Listed(c, value) == contains(vd.columns[c].limiter.variant[1], value)

---------------------------------------------------------------------------
(* The contracts of the row and cell operations, stated on a step of the   *)
(* program: cont is the container before the call, cont' the container     *)
(* after it, last' the call and its result.                                *)

\* The rows other than row x (0-based) are the same before and after.
OtherRowsSame(x) ==
    /\ Len(cont'.rows) = Len(cont.rows)
    /\ \A r \in DOMAIN cont.rows : r # x + 1 => cont'.rows[r] = cont.rows[r]

\* A value of the list fails the limiter of its column (VirtualData).
SomeValueFails(values) ==
    /\ sut = "VirtualData"
    /\ \E c \in DOMAIN values :
          c <= Len(vd.columns) /\ ~qualify(vd.columns[c].limiter, values[c])

\* C12: set_row returns InsufficientRowData when the list is not as long as
\* the columns; when it returns an error, and so when a value fails the
\* limiter of its column, no cell and no meta has changed; when it returns
\* Ok every cell of the row reads as the value given for its column and the
\* other rows are unchanged.
C12_SetRowAtomic ==
    [][last'.op = "set_row" =>
        /\ Len(last'.arg) # Len(cont.columns) => last'.ret = "InsufficientRowData"
        /\ (/\ Len(last'.arg) = Len(cont.columns)
            /\ last'.x < Len(cont.rows)
            /\ SomeValueFails(last'.arg)) => last'.ret = "InvalidRowData"
        /\ last'.ret \notin {"Ok", "Panic"} => cont' = cont
        /\ last'.ret = "Ok" =>
              /\ \A c \in DOMAIN cont.columns :
                    VCont_get_cell(cont', last'.x, c - 1) = <<last'.arg[c]>>
              /\ OtherRowsSame(last'.x)]_vars

\* A present value of the list fails the limiter of its column (VirtualData).
SomePresentFails(values) ==
    /\ sut = "VirtualData"
    /\ \E c \in DOMAIN values :
          /\ c <= Len(vd.columns)
          /\ values[c] # <<>>
          /\ ~qualify(vd.columns[c].limiter, values[c][1])

\* C13: after an edit_row that returned Ok the cells at the positions of
\* the present values read as those values, the cells at the positions of
\* the absent ones and the other rows are as before; when a present value
\* fails the limiter of its column edit_row returns an error, and after an
\* error nothing has changed.
C13_EditRowWritesPresent ==
    [][last'.op = "edit_row" =>
        /\ (/\ Len(last'.arg) = Len(cont.columns)
            /\ last'.x < Len(cont.rows)
            /\ SomePresentFails(last'.arg)) => last'.ret = "InvalidRowData"
        /\ last'.ret \notin {"Ok", "Panic"} => cont' = cont
        /\ last'.ret = "Ok" =>
              /\ \A c \in DOMAIN cont.columns :
                    VCont_get_cell(cont', last'.x, c - 1) =
                        IF last'.arg[c] # <<>> THEN last'.arg[c]
                        ELSE VCont_get_cell(cont, last'.x, c - 1)
              /\ OtherRowsSame(last'.x)]_vars

\* C14: get_cell(x, y) and set_cell(x, y, v) take a row index x and a column
\* index y; with x >= row count or y >= column count get_cell returns None
\* and set_cell returns OutOfRangeError and changes nothing; after a set_cell
\* that returned Ok, get_cell(x, y) returns v and every other cell reads as
\* before.
C14_CellByRowAndColumn ==
    [][/\ \A x \in 0..(Len(cont.rows) + 1), y \in 0..(Len(cont.columns) + 1) :
             (x >= Len(cont.rows) \/ y >= Len(cont.columns))
                 => VCont_get_cell(cont, x, y) = <<>>
       /\ last'.op = "set_cell" =>
            /\ (last'.x >= Len(cont.rows) \/ last'.y >= Len(cont.columns))
                  => last'.ret = "OutOfRangeError" /\ cont' = cont
            /\ last'.ret = "Ok" =>
                  /\ VCont_get_cell(cont', last'.x, last'.y) = <<last'.arg>>
                  /\ \A x \in 0..(Len(cont.rows) - 1), y \in 0..(Len(cont.columns) - 1) :
                        <<x, y>> # <<last'.x, last'.y>>
                            => VCont_get_cell(cont', x, y) = VCont_get_cell(cont, x, y)]_vars

\* C15: insert_row(index, values) returns InvalidColumn when index > row
\* count, and InvalidRowData when values are given that are not as many as
\* the columns or one of which fails the limiter of its column; after an
\* error nothing has changed; after Ok the rows before index are in place,
\* the rows from index on have moved up by one, and the cells of the row at
\* index read as the given values or, without values, as the default values
\* of their columns.
C15_InsertRow ==
    [][last'.op = "insert_row" =>
        /\ last'.x > Len(cont.rows) => last'.ret = "InvalidColumn"
        /\ (/\ last'.x <= Len(cont.rows)
            /\ last'.arg # <<>>
            /\ \/ Len(last'.arg[1]) # Len(cont.columns)
               \/ SomeValueFails(last'.arg[1])) => last'.ret = "InvalidRowData"
        /\ last'.ret \notin {"Ok", "Panic"} => cont' = cont
        /\ last'.ret = "Ok" =>
              /\ Len(cont'.rows) = Len(cont.rows) + 1
              /\ \A r \in DOMAIN cont.rows :
                    cont'.rows[IF r <= last'.x THEN r ELSE r + 1] = cont.rows[r]
              /\ \A c \in DOMAIN cont.columns :
                    VCont_get_cell(cont', last'.x, c - 1) =
                        <<IF last'.arg # <<>> THEN last'.arg[1][c]
                          ELSE get_default_value(cont.columns[c])>>]_vars

\* insert_column(index, name) is to succeed on the container before the step
InsertColumnAllowed(index, name) ==
    /\ index <= Len(cont.columns)
    /\ sut = "VirtualData" => \A c \in DOMAIN vd.columns : vd.columns[c].name # name

\* C16: insert_column(index, name) returns Ok whenever index <= column count
\* and, on a VirtualData, no column has that name, and otherwise returns
\* InvalidColumn and changes nothing; after Ok the column is at position
\* index, every row reads the default value there, and every other cell
\* reads as before.
C16_InsertColumn ==
    [][last'.op = "insert_column" =>
        /\ InsertColumnAllowed(last'.x, last'.arg) => last'.ret = "Ok"
        /\ ~InsertColumnAllowed(last'.x, last'.arg)
              => last'.ret = "InvalidColumn" /\ cont' = cont
        /\ last'.ret = "Ok" =>
              /\ Len(cont'.columns) = Len(cont.columns) + 1
              /\ cont'.columns[last'.x + 1].name = last'.arg
              /\ Len(cont'.rows) = Len(cont.rows)
              /\ \A r \in DOMAIN cont.rows :
                    /\ VCont_get_cell(cont', r - 1, last'.x) =
                           <<get_default_value(cont'.columns[last'.x + 1])>>
                    /\ \A c \in DOMAIN cont.columns :
                          VCont_get_cell(cont', r - 1, IF c <= last'.x THEN c - 1 ELSE c)
                              = VCont_get_cell(cont, r - 1, c - 1)]_vars

\* C17: delete_row(index) with index >= row count, index = row count
\* included, returns false and changes nothing; with index < row count it
\* returns true and removes the row at index, the other rows keeping their
\* order.
C17_DeleteRowLenient ==
    [][last'.op = "delete_row" =>
        /\ last'.x >= Len(cont.rows) => last'.ret = "false" /\ cont' = cont
        /\ last'.x < Len(cont.rows) =>
              /\ last'.ret = "true"
              /\ cont'.rows = RemoveAt(cont.rows, last'.x)]_vars

\* C18: delete_column(index) with index < column count returns Ok whatever
\* the number of rows, none included, and removes the column, its meta and
\* the cell of that column from every row, the other cells reading as
\* before; with index >= column count it returns OutOfRangeError and changes
\* nothing.
C18_DeleteColumn ==
    [][last'.op = "delete_column" =>
        /\ last'.x >= Len(cont.columns)
              => last'.ret = "OutOfRangeError" /\ cont' = cont
        /\ last'.x < Len(cont.columns) =>
              /\ last'.ret = "Ok"
              /\ cont'.columns = RemoveAt(cont.columns, last'.x)
              /\ cont'.metas = RemoveAt(cont.metas, last'.x)
              /\ \A r \in DOMAIN cont'.rows, c \in DOMAIN cont'.columns :
                    VCont_get_cell(cont', r - 1, c - 1) =
                        VCont_get_cell(cont, r - 1, IF c <= last'.x THEN c - 1 ELSE c)]_vars

---------------------------------------------------------------------------
(* SpecDelete: a container read from a stream or built of up to DelMaxCols *)
(* columns and DelMaxRows rows, emptied by drop_data and delete_column.    *)

DelMaxCols == 1

DelMaxRows == 1

Del_insert_column ==
    \E i \in 0..DelMaxCols, name \in Names :
        /\ Len(cont.columns) < DelMaxCols
        /\ Len(cont.metas) < DelMaxCols
        /\ Do("insert_column", i, 0, name, VCont_insert_column(cont, i, name))

Del_insert_row ==
    \E i \in 0..DelMaxRows, source \in {<<>>} \cup {<<row>> : row \in RowValues} :
        /\ Len(cont.rows) < DelMaxRows
        /\ Do("insert_row", i, 0, source, VCont_insert_row(cont, i, source))

NextDelete ==
    \/ Op_read
    \/ Del_insert_column
    \/ Del_insert_row
    \/ Op_delete_column
    \/ Op_drop_data

SpecDelete == InitCont /\ [][NextDelete]_vars

\* C19: when a delete_column that returned Ok has removed the last column
\* of the container, the container has no column and no row.
C19_LastColumnDropsRows ==
    [][(/\ last'.op = "delete_column"
        /\ last'.ret = "Ok"
        /\ Len(cont.columns) = 1)
          => Len(cont'.columns) = 0 /\ Len(cont'.rows) = 0]_vars

\* delete_column has returned Ok and left a container without columns (it
\* returns Ok on a container with rows only).
C19_Witness ==
    /\ last.op = "delete_column"
    /\ last.ret = "Ok"
    /\ Len(cont.columns) = 0
    /\ Len(cont.rows) = 0

\* No column of the VirtualData before the step is named name.
FreshName(name) == \A c \in DOMAIN vd.columns : vd.columns[c].name # name

\* C20: VirtualData::rename_column(index, new_name) with index < column
\* count and a new_name that no column has returns Ok whatever the number
\* of rows, the column is then named new_name and every cell of every row,
\* the renamed column's included, reads as before; with a new_name that a
\* column has it returns an error and changes nothing.
C20_RenameColumn ==
    [][(sut = "VirtualData" /\ last'.op = "rename_column"
            /\ last'.x < Len(vd.columns)) =>
        /\ FreshName(last'.arg) =>
              /\ last'.ret = "Ok"
              /\ vd'.columns[last'.x + 1].name = last'.arg
              /\ Len(vd'.rows) = Len(vd.rows)
              /\ \A r \in DOMAIN vd.rows, c \in DOMAIN vd.columns :
                    VD_get_cell(vd', r - 1, c - 1) = VD_get_cell(vd, r - 1, c - 1)
        /\ ~FreshName(last'.arg) =>
              /\ last'.ret \notin {"Ok", "Panic"}
              /\ vd' = vd]_vars


\* The display widths of the values column c (1-based) of container d
\* holds, as get_cell reads them.
ColumnWidths(d, c) ==
    {get_width(VCont_get_cell(d, x, c - 1)[1]) :
        x \in {r \in 0..(Len(d.rows) - 1) : VCont_get_cell(d, r, c - 1) # <<>>}}

\* The true maximum display width of the values of column c: 0 without values.
TrueMax(d, c) ==
    IF ColumnWidths(d, c) = {} THEN 0
    ELSE CHOOSE w \in ColumnWidths(d, c) : \A v \in ColumnWidths(d, c) : v <= w

\* Row x (0-based) holds a value of column c as wide as any the column holds.
HoldsMax(d, x, c) ==
    /\ VCont_get_cell(d, x, c - 1) # <<>>
    /\ get_width(VCont_get_cell(d, x, c - 1)[1]) = TrueMax(d, c)

\* C26: when delete_row removes the row holding the widest value of a
\* column, the width tracked for the column afterwards is the true maximum
\* display width of the values that remain in the column.
C26_WidthAfterDelete ==
    [][(last'.op = "delete_row" /\ last'.ret = "true") =>
         \A c \in DOMAIN cont.columns :
            (c \in DOMAIN cont.metas /\ HoldsMax(cont, last'.x, c))
               => cont'.metas[c].max_unicode_width = TrueMax(cont', c)]_vars

\* The step is a call whose row or column index lies outside the container
\* (for an insertion: beyond its end).
IndexOutside ==
    \/ last'.op \in {"delete_row", "set_row", "edit_row"} /\ last'.x >= Len(cont.rows)
    \/ last'.op = "insert_row" /\ last'.x > Len(cont.rows)
    \/ last'.op \in {"delete_column", "rename_column", "set_column", "set_limiter", "qualify"}
         /\ last'.x >= Len(cont.columns)
    \/ last'.op \in {"insert_column", "insert_column_with_type"}
         /\ last'.x > Len(cont.columns)
    \/ last'.op = "set_cell_from_string"
         /\ (last'.x >= Len(cont.rows) \/ last'.y >= Len(cont.columns))
    \/ last'.op = "set_cell"
         /\ (last'.x >= Len(cont.rows) \/ last'.y >= Len(cont.columns))
    \/ last'.op = "move_row"
         /\ (last'.x >= Len(cont.rows) \/ last'.y >= Len(cont.rows))
    \/ last'.op = "move_column"
         /\ (last'.x >= Len(cont.columns) \/ last'.y >= Len(cont.columns))

\* C28: a container operation given a row or column index outside the
\* container returns an error (false for delete_row) and leaves the
\* container as it was; it does not abort.
C28_IndexErrorsReturned ==
    [][IndexOutside => (last'.ret \notin {"Ok", "true", "Panic"} /\ cont' = cont)]_vars

\* C39: a container with zero columns holds no rows.
C39_NoRowsWithoutColumns ==
    Len(cont.columns) = 0 => Len(cont.rows) = 0

---------------------------------------------------------------------------
(* SpecSetLimiter: a VirtualData with one column and up to SetMaxRows      *)
(* rows, and a ValueLimiter the program builds with from_line and set_type *)
(* and sets on the column with set_limiter, strict or not.                 *)

SetMaxRows == 2

\* A call op(arg) that builds or changes the program's limiter: res.data is
\* the limiter afterwards when res.ret is Ok.
DoLimiter(op, arg, res) ==
    /\ last.ret # "Panic"
    /\ lim' = IF res.ret = "Ok" THEN res.data ELSE lim
    /\ last' = Call(op, 0, 0, arg, res.ret)
    /\ UNCHANGED <<sut, vd, va, parser, option, feed>>

\* from_line returns the limiter: the program keeps it when it is Ok.
LimiterOf(res) == Res(IF res.ret = "Ok" THEN res.data[1] ELSE <<>>, res.ret)

\* The schema lines text,,, and number,,, and text,x,x y,
SetLines ==
    {<<<<"t", "e", "x", "t">>, <<>>, <<>>, <<>>>>,
     <<<<"n", "u", "m", "b", "e", "r">>, <<>>, <<>>, <<>>>>,
     <<<<"t", "e", "x", "t">>, <<"x">>, <<"x", " ", "y">>, <<>>>>}

Set_from_line ==
    \E attributes \in SetLines :
        DoLimiter("from_line", attributes, LimiterOf(from_line(attributes)))

Set_set_type ==
    \E column_type \in {"Number", "Text"} :
        DoLimiter("set_type", column_type, Res(set_type(lim, column_type), "Ok"))

Set_insert_column ==
    /\ vd.columns = <<>>
    /\ Do("insert_column", 0, 0, <<"a">>, VD_insert_column(vd, 0, <<"a">>))

Set_insert_row ==
    \E i \in 0..SetMaxRows, value \in LimValues :
        /\ vd.columns # <<>>
        /\ Len(vd.rows) < SetMaxRows
        /\ Do("insert_row", i, 0, <<<<value>>>>, VD_insert_row(vd, i, <<<<value>>>>))

Set_set_limiter ==
    \E panic \in BOOLEAN :
        /\ vd.columns # <<>>
        /\ Do("set_limiter", 0, 0, <<lim, panic>>, VD_set_limiter(vd, 0, lim, panic))

NextSetLimiter ==
    \/ Set_from_line
    \/ Set_set_type
    \/ Set_insert_column
    \/ Set_insert_row
    \/ Set_set_limiter

SpecSetLimiter == InitLimit /\ [][NextSetLimiter]_vars

\* The cell of column c (1-based) in row r of container d.
CellOf(d, r, c) == d.rows[r][d.columns[c].name]

\* What the value turns into under the limiter: the value converted to the
\* limiter's type when it converts and then qualifies, <<>> otherwise.
ConvertedBy(limiter, value) ==
    IF is_convertible(limiter, value) = <<>> THEN <<>>
    ELSE IF from_str(to_string(value), is_convertible(limiter, value)[1]) = <<>> THEN <<>>
    ELSE IF qualify(limiter, from_str(to_string(value), is_convertible(limiter, value)[1])[1])
    THEN from_str(to_string(value), is_convertible(limiter, value)[1])
    ELSE <<>>

\* The step is a call set_limiter(column, limiter, strict) on a column the
\* table has, every row holding a cell of that column.
SetLimiterCalled(strict) ==
    /\ sut = "VirtualData"
    /\ last'.op = "set_limiter"
    /\ last'.arg[2] = strict
    /\ last'.x < Len(vd.columns)
    /\ \A r \in DOMAIN vd.rows : vd.columns[last'.x + 1].name \in DOMAIN vd.rows[r]

\* C21: set_limiter(column, limiter, strict = false) returns Ok; the column's
\* limiter and type are then the new ones; a cell whose value converts to the
\* limiter's type and then qualifies holds the converted value, every other
\* cell holds the limiter's default (the empty value of its type when it has
\* none); and every cell of the column qualifies the new limiter.
C21_LenientSetLimiter ==
    [][SetLimiterCalled(FALSE) =>
         LET c == last'.x + 1
             limiter == last'.arg[1]
         IN  /\ last'.ret = "Ok"
             /\ vd'.columns[c].limiter = limiter
             /\ vd'.columns[c].column_type = limiter.value_type
             /\ Len(vd'.rows) = Len(vd.rows)
             /\ \A r \in DOMAIN vd.rows :
                   /\ CellOf(vd', r, c) =
                        IF ConvertedBy(limiter, CellOf(vd, r, c)) # <<>>
                        THEN ConvertedBy(limiter, CellOf(vd, r, c))[1]
                        ELSE unwrap_or(limiter.default, Value_empty(limiter.value_type))
                   /\ qualify(limiter, CellOf(vd', r, c))]_vars


\* The first row (1-based) whose cell of column c does not turn into a
\* qualifying value under the limiter; 0 when every cell does.
FirstFailing(limiter, c) ==
    IF \A r \in DOMAIN vd.rows : ConvertedBy(limiter, CellOf(vd, r, c)) # <<>> THEN 0
    ELSE CHOOSE r \in DOMAIN vd.rows :
            /\ ConvertedBy(limiter, CellOf(vd, r, c)) = <<>>
            /\ \A q \in 1..(r - 1) : ConvertedBy(limiter, CellOf(vd, q, c)) # <<>>

---------------------------------------------------------------------------
(* SpecBoth: a VirtualData without limiters and a VirtualArray, both new,  *)
(* given the same calls of the VCont operations with the same arguments.   *)
(* last.ret is the pair of the results: VirtualData's, VirtualArray's.     *)

InitBoth ==
    /\ sut = "VirtualData"
    /\ vd = VD_new
    /\ va = VA_new
    /\ last = Call("new", 0, 0, <<>>, <<"Ok", "Ok">>)
    /\ parser = Parser_new
    /\ option = ReaderOption_new
    /\ feed = NoFeed
    /\ lim = ValueLimiter_default

BothNames == {<<"a">>, <<"b">>}

\* The same call on both containers
DoBoth(op, x, y, arg, resd, resa) ==
    /\ "Panic" \notin {last.ret[1], last.ret[2]}
    /\ vd' = resd.data
    /\ va' = resa.data
    /\ last' = Call(op, x, y, arg, <<resd.ret, resa.ret>>)
    /\ UNCHANGED <<sut, parser, option, feed, lim>>

\* insert_column with a name no column has
Both_insert_column ==
    \E i \in 0..MaxCols, name \in BothNames :
        /\ Len(va.columns) < MaxCols
        /\ \A c \in DOMAIN va.columns : va.columns[c].name # name
        /\ \A c \in DOMAIN vd.columns : vd.columns[c].name # name
        /\ DoBoth("insert_column", i, 0, name,
                  VD_insert_column(vd, i, name), VA_insert_column(va, i, name))

Both_delete_column ==
    \E i \in 0..MaxCols :
        DoBoth("delete_column", i, 0, <<>>, VD_delete_column(vd, i), VA_delete_column(va, i))

Both_rename_column ==
    \E i \in 0..MaxCols, name \in BothNames :
        DoBoth("rename_column", i, 0, name,
               VD_rename_column(vd, i, name), VA_rename_column(va, i, name))

Both_move_column ==
    \E src \in 0..MaxCols, target \in 0..MaxCols :
        DoBoth("move_column", src, target, <<>>,
               VD_move_column(vd, src, target), VA_move_column(va, src, target))

Both_insert_row ==
    \E i \in 0..MaxRows, source \in {<<>>} \cup {<<row>> : row \in RowValues} :
        /\ Len(va.rows) < MaxRows
        /\ DoBoth("insert_row", i, 0, source,
                  VD_insert_row(vd, i, source), VA_insert_row(va, i, source))

Both_delete_row ==
    \E i \in 0..(MaxRows + 1) :
        DoBoth("delete_row", i, 0, <<>>, VD_delete_row(vd, i), VA_delete_row(va, i))

Both_move_row ==
    \E src \in 0..MaxRows, target \in 0..MaxRows :
        DoBoth("move_row", src, target, <<>>,
               VD_move_row(vd, src, target), VA_move_row(va, src, target))

Both_set_cell ==
    \E x \in 0..MaxRows, y \in 0..MaxCols, value \in Values :
        DoBoth("set_cell", x, y, value, VD_set_cell(vd, x, y, value), VA_set_cell(va, x, y, value))

Both_set_row ==
    \E i \in 0..MaxRows, values \in RowValues :
        DoBoth("set_row", i, 0, values, VD_set_row(vd, i, values), VA_set_row(va, i, values))

Both_edit_row ==
    \E i \in 0..MaxRows, values \in RowOptions :
        DoBoth("edit_row", i, 0, values, VD_edit_row(vd, i, values), VA_edit_row(va, i, values))

Both_set_column ==
    \E i \in 0..MaxCols, value \in Values :
        DoBoth("set_column", i, 0, value, VD_set_column(vd, i, value), VA_set_column(va, i, value))

NextBoth ==
    \/ Both_insert_column
    \/ Both_delete_column
    \/ Both_rename_column
    \/ Both_move_column
    \/ Both_insert_row
    \/ Both_delete_row
    \/ Both_move_row
    \/ Both_set_cell
    \/ Both_set_row
    \/ Both_edit_row
    \/ Both_set_column

SpecBoth == InitBoth /\ [][NextBoth]_vars

\* The two containers show the same table: the same column names in the
\* same order, as many rows, and the same get_cell at every coordinate.
SameTable ==
    /\ [c \in DOMAIN vd.columns |-> vd.columns[c].name]
         = [c \in DOMAIN va.columns |-> va.columns[c].name]
    /\ Len(vd.rows) = Len(va.rows)
    /\ \A x \in 0..MaxRows, y \in 0..MaxCols : VD_get_cell(vd, x, y) = VA_get_cell(va, x, y)

\* C23: after the same calls with the same arguments on a VirtualData
\* without limiters and a VirtualArray (insert_column with names no column
\* has), the last call returned the same result on both and both show the
\* same table.
C23_SameContract ==
    last.op # "new" => (last.ret[1] = last.ret[2] /\ SameTable)


---------------------------------------------------------------------------
(* SpecRender: a container of up to RndMaxCols columns and RndMaxRows rows *)
(* of texts, some holding a comma, a double quote or a newline, rendered   *)
(* by to_string and read back from the rendered text by a Reader::new().   *)

RndMaxCols == 2

RndMaxRows == 1

\* String::pop()
pop(s) == IF s = <<>> THEN <<>> ELSE SubSeq(s, 1, Len(s) - 1)

\* impl Display for VirtualData
VD_to_string(d) ==
    LET column_row == join([c \in DOMAIN d.columns |-> d.columns[c].name], <<",">>)
                        \o <<"\n">>
        row_value(r) ==
            join([c \in DOMAIN d.columns |->
                    IF d.columns[c].name \in DOMAIN d.rows[r]
                    THEN to_string(d.rows[r][d.columns[c].name])
                    ELSE <<>>], <<",">>) \o <<"\n">>
    IN  pop(column_row \o join([r \in DOMAIN d.rows |-> row_value(r)], <<>>))

\* impl Display for VirtualArray
VA_to_string(d) ==
    LET column_row == join([c \in DOMAIN d.columns |-> d.columns[c].name], <<",">>)
                        \o <<"\n">>
        rows == [r \in DOMAIN d.rows |->
                   join([c \in DOMAIN d.rows[r] |-> to_string(d.rows[r][c])], <<",">>)]
    IN  column_row \o join(rows, <<"\n">>)

VCont_to_string(d) == IF sut = "VirtualData" THEN VD_to_string(d) ELSE VA_to_string(d)

RndValues == {Text(<<>>), Text(<<"x">>), Text(<<",">>), Text(<<"\"">>), Text(<<"\n">>)}

RndRowValues == UNION {[1..n -> RndValues] : n \in 1..RndMaxCols}

Rnd_insert_column ==
    \E i \in 0..RndMaxCols, name \in BothNames :
        /\ Len(cont.columns) < RndMaxCols
        /\ Do("insert_column", i, 0, name, VCont_insert_column(cont, i, name))

Rnd_insert_row ==
    \E i \in 0..RndMaxRows, source \in {<<>>} \cup {<<row>> : row \in RndRowValues} :
        /\ Len(cont.rows) < RndMaxRows
        /\ Do("insert_row", i, 0, source, VCont_insert_row(cont, i, source))

Rnd_delete_row ==
    \E i \in 0..RndMaxRows :
        /\ i < Len(cont.rows)
        /\ Do("delete_row", i, 0, <<>>, VCont_delete_row(cont, i))

\* to_string(): the container stays, the call returns the text (last.arg)
Rnd_to_string == Do("to_string", 0, 0, VCont_to_string(cont), Res(cont, "Ok"))

\* The text of to_string() read by data_from_stream or array_from_stream:
\* the container read is the program's container from then on.
Rnd_read_back == DoRead(read_until(VCont_to_string(cont), "\n", <<>>))

NextRender ==
    \/ Rnd_insert_column
    \/ Rnd_insert_row
    \/ Rnd_delete_row
    \/ Rnd_to_string
    \/ Rnd_read_back

SpecRender == InitCont /\ [][NextRender]_vars

\* The lines of the table: the column names joined by commas, then per row
\* its values in column order (get_cell) joined by commas.
TableLines(d) ==
    <<join([c \in DOMAIN d.columns |-> d.columns[c].name], <<",">>)>>
    \o [r \in DOMAIN d.rows |->
          join([c \in DOMAIN d.columns |->
                  to_string(unwrap_or(VCont_get_cell(d, r - 1, c - 1), Text(<<>>)))],
               <<",">>)]

\* C24: to_string of a VirtualData and of a VirtualArray is the header line
\* and one line per row, the lines separated by a newline, without a
\* trailing newline: a container with columns and no row renders as the
\* header line alone.
C24_Rendering ==
    last.op = "to_string" => last.arg = join(TableLines(cont), <<"\n">>)


\* Containers d and e hold the same column names in the same order and the
\* same rows of equal values.
SameContent(d, e) ==
    /\ [c \in DOMAIN d.columns |-> d.columns[c].name]
         = [c \in DOMAIN e.columns |-> e.columns[c].name]
    /\ Len(d.rows) = Len(e.rows)
    /\ \A x \in 0..RndMaxRows, y \in 0..RndMaxCols :
          VCont_get_cell(d, x, y) = VCont_get_cell(e, x, y)

\* C25: reading the text of to_string() with a reader that takes the first
\* line as the header succeeds and yields a container with the same column
\* names and the same rows, also when a value holds a comma, a double quote
\* or a newline.
C25_RoundTrip ==
    [][(/\ last'.op \in {"data_from_stream", "array_from_stream"}
        /\ last'.arg = read_until(VCont_to_string(cont), "\n", <<>>))
       => (last'.ret = "Ok" /\ SameContent(cont, cont'))]_vars


---------------------------------------------------------------------------
(* SpecWidth: a VirtualData of up to WdMaxCols columns and WdMaxRows rows  *)
(* of the texts x and xx, changed by the operations that write cells, and  *)
(* rendered by get_string_table.                                           *)

WdMaxCols == 1

WdMaxRows == 1

\* VirtualData::set_cell_from_string: the width is tracked before set_cell
\* is tried.
VD_set_cell_from_string(d, x, y, value) ==
    IF ~VD_is_valid_cell_coordinate(d, x, y) THEN Res(d, "OutOfRangeError")
    ELSE IF from_str(value, d.columns[y + 1].column_type) = <<>>
         \/ (d.columns[y + 1].column_type = "Number" /\ value = <<>>)
    THEN Res(d, "InvalidCellData")
    ELSE IF y >= Len(d.metas) THEN Res(d, "Panic")
    ELSE LET nvalue == from_str(value, d.columns[y + 1].column_type)[1]
             tracked == [d EXCEPT !.metas[y + 1] = update_width_from_value(@, nvalue)]
         IN  Res(VD_set_cell(tracked, x, y, nvalue).data,
                 VD_set_cell(tracked, x, y, nvalue).ret)

\* VirtualData::qualify(column, limiter): data is the rows (by index) whose
\* cell of the column qualifies the limiter
VD_qualify(d, column, limiter) ==
    IF column >= Len(d.columns) THEN Res(<<>>, "Panic")
    ELSE IF \E r \in DOMAIN d.rows : d.columns[column + 1].name \notin DOMAIN d.rows[r]
    THEN Res(<<>>, "InvalidRowData")
    ELSE Res({r \in DOMAIN d.rows :
                qualify(limiter, d.rows[r][d.columns[column + 1].name])}, "Ok")

\* VirtualData::apply_all(f): f is the closure, a function on values
VD_apply_all(d, f) ==
    Res([d EXCEPT !.rows = [r \in DOMAIN d.rows |->
                              [k \in DOMAIN d.rows[r] |-> f[d.rows[r][k]]]]],
        "Ok")

\* pad of get_string_table: <<the padded text>>, or <<>> for its panic
pad(target, max_width, align_type) ==
    IF align_type = "None" THEN <<target>>
    ELSE IF Len(target) > max_width THEN <<>>
    ELSE IF align_type = "Left"
    THEN <<target \o repeat(" ", max_width - Len(target))>>
    ELSE IF align_type = "Right"
    THEN <<repeat(" ", max_width - Len(target)) \o target>>
    ELSE LET leading == (max_width - Len(target) + 1) \div 2
         IN  <<repeat(" ", leading) \o target
                 \o repeat(" ", max_width - Len(target) - leading)>>

\* The width get_string_table pads column c (1-based) to
width_vector(d, c) == Max(Len(d.columns[c].name), d.metas[c].max_unicode_width)

\* VirtualData::get_string_table(align_type): data is the table, the header
\* row and the rows of the columns that have a meta; ret is Panic when pad
\* meets a text wider than its column.
VD_get_string_table(d, align_type) ==
    LET zipped == 1..Min(Len(d.columns), Len(d.metas))
        column_row == [c \in zipped |-> pad(d.columns[c].name, width_vector(d, c), align_type)]
        row_value(r) ==
            [c \in zipped |->
               pad(IF d.columns[c].name \in DOMAIN d.rows[r]
                   THEN to_string(d.rows[r][d.columns[c].name]) ELSE <<>>,
                   width_vector(d, c), align_type)]
        formatted == <<column_row>> \o [r \in DOMAIN d.rows |-> row_value(r)]
    IN  IF \E l \in DOMAIN formatted, c \in zipped : formatted[l][c] = <<>>
        THEN Res(<<>>, "Panic")
        ELSE Res([l \in DOMAIN formatted |-> [c \in zipped |-> formatted[l][c][1]]], "Ok")

WdValues == {Text(<<"x">>), Text(<<"x", "x">>)}

\* ValueLimiter::from_line(["text", "xx", "xx", ""])
WdLimiter == from_line(<<<<"t", "e", "x", "t">>, <<"x", "x">>, <<"x", "x">>, <<>>>>).data[1]

\* The closures given to apply_all: |v| *v = w.clone(), for the values w
WdClosures == {[v \in WdValues \cup {Text(<<>>)} |-> w] : w \in WdValues}

Wd_insert_column_with_type ==
    \E i \in 0..WdMaxCols, placeholder \in {<<>>} \cup {<<v>> : v \in WdValues} :
        /\ Len(vd.columns) < WdMaxCols
        /\ Do("insert_column_with_type", i, 0, <<<<"a">>, placeholder>>,
              VD_insert_column_with_type(vd, i, <<"a">>, "Text", <<>>, placeholder))

Wd_insert_row ==
    \E i \in 0..WdMaxRows, source \in {<<>>} \cup {<<<<v>>>> : v \in WdValues} :
        /\ Len(vd.rows) < WdMaxRows
        /\ Do("insert_row", i, 0, source, VD_insert_row(vd, i, source))

Wd_delete_row ==
    \E i \in 0..WdMaxRows :
        /\ i < Len(vd.rows)
        /\ Do("delete_row", i, 0, <<>>, VD_delete_row(vd, i))

Wd_set_cell_from_string ==
    \E x \in 0..WdMaxRows, y \in 0..WdMaxCols, value \in {<<"x">>, <<"x", "x">>} :
        Do("set_cell_from_string", x, y, value, VD_set_cell_from_string(vd, x, y, value))

Wd_set_limiter ==
    \E i \in 0..WdMaxCols, panic \in BOOLEAN :
        Do("set_limiter", i, 0, <<WdLimiter, panic>>,
           VD_set_limiter(vd, i, WdLimiter, panic))

\* qualify(column, limiter): the container stays; the call returns the rows
Wd_qualify ==
    \E i \in 0..WdMaxCols :
        Do("qualify", i, 0, <<WdLimiter, VD_qualify(vd, i, WdLimiter).data>>,
           Res(vd, VD_qualify(vd, i, WdLimiter).ret))

Wd_apply_all ==
    \E f \in WdClosures : Do("apply_all", 0, 0, f, VD_apply_all(vd, f))

\* get_string_table(align_type): the container stays; the call returns the
\* table or aborts.
Wd_get_string_table ==
    \E align_type \in {"None", "Left", "Right", "Center"} :
        Do("get_string_table", 0, 0, <<align_type, VD_get_string_table(vd, align_type).data>>,
           Res(vd, VD_get_string_table(vd, align_type).ret))

NextWidth ==
    \/ Wd_insert_column_with_type
    \/ Wd_insert_row
    \/ Wd_delete_row
    \/ Wd_set_cell_from_string
    \/ Wd_set_limiter
    \/ Wd_qualify
    \/ Wd_apply_all
    \/ Wd_get_string_table

SpecWidth == InitLimit /\ [][NextWidth]_vars

\* C27: in every state of a VirtualData the width get_string_table pads a
\* column to, the larger of the width of its name and its tracked width, is
\* at least the display width of every cell of the column, and
\* get_string_table never aborts on a text wider than its column.
C27_PaddingCovers ==
    /\ \A c \in DOMAIN vd.columns, r \in DOMAIN vd.rows :
          (c \in DOMAIN vd.metas /\ vd.columns[c].name \in DOMAIN vd.rows[r])
             => Len(to_string(CellOf(vd, r, c))) <= width_vector(vd, c)
    /\ last.op = "get_string_table" => last.ret # "Panic"

\* The text of line l (1 the header, l + 1 the row l) and column c that
\* get_string_table pads
TableText(d, l, c) ==
    IF l = 1 THEN d.columns[c].name
    ELSE IF d.columns[c].name \in DOMAIN d.rows[l - 1]
    THEN to_string(d.rows[l - 1][d.columns[c].name])
    ELSE <<>>

\* C32: with Center alignment get_string_table pads a cell of width w in a
\* column of width W with floor((W - w) / 2) spaces on the left and the
\* remaining spaces on the right, and the padded cell has width W.
C32_CenterPadding ==
    (last.op = "get_string_table" /\ last.arg[1] = "Center") =>
        /\ last.ret = "Ok"
        /\ \A l \in DOMAIN last.arg[2] : \A c \in DOMAIN last.arg[2][l] :
              LET target == TableText(vd, l, c)
                  W == width_vector(vd, c)
                  left == (W - Len(target)) \div 2
              IN  /\ Len(last.arg[2][l][c]) = W
                  /\ last.arg[2][l][c]
                       = repeat(" ", left) \o target \o repeat(" ", W - Len(target) - left)


---------------------------------------------------------------------------
(* SpecLimiter: a ValueLimiter, ValueLimiter::default() at first, replaced *)
(* by the result of from_line on schema lines of up to MaxLineLen          *)
(* attributes and changed by set_type, set_variant and set_pattern.        *)

MaxLineLen == 5

InitLimiter ==
    /\ sut = "ValueLimiter"
    /\ vd = VD_new
    /\ va = VA_new
    /\ last = NoCall
    /\ parser = Parser_new
    /\ option = ReaderOption_new
    /\ feed = NoFeed
    /\ lim = ValueLimiter_default

\* The attributes written in schema lines: types, defaults, variant lists
\* and patterns, "(" being a pattern Regex::new refuses.
LineTypes == {<<"t", "e", "x", "t">>, <<"N", "u", "m", "b", "e", "r">>, <<"b", "o", "o", "l">>}

LineDefaults == {<<>>, <<"x">>, <<"5">>}

LineVariants == {<<>>, <<"x", " ", "y">>, <<"5", " ", "6">>}

LinePatterns == {<<>>, <<"^", "x">>, <<"^", "[", "0", "-", "9", "]", "+", "$">>, <<"(">>}

\* The schema lines: every line of LIMITER_ATTRIBUTE_LEN attributes, and a
\* line text,,.. of every other length up to MaxLineLen
Lines ==
    {<<t, d, v, p>> : t \in LineTypes, d \in LineDefaults,
                      v \in LineVariants, p \in LinePatterns}
    \cup {[i \in 1..n |-> IF i = 1 THEN <<"t", "e", "x", "t">> ELSE <<>>] :
            n \in (0..MaxLineLen) \ {LIMITER_ATTRIBUTE_LEN}}

VariantLists ==
    {<<Text(<<"x">>), Text(<<"y">>)>>, <<Number(5), Number(6)>>, <<>>}

Vl_from_line ==
    \E attributes \in Lines :
        /\ sut = "ValueLimiter"
        /\ DoLimiter("from_line", attributes, LimiterOf(from_line(attributes)))

Vl_set_type ==
    \E column_type \in {"Number", "Text"} :
        /\ sut = "ValueLimiter"
        /\ DoLimiter("set_type", column_type, Res(set_type(lim, column_type), "Ok"))

Vl_set_variant ==
    \E default \in LimValues, variants \in VariantLists :
        /\ sut = "ValueLimiter"
        /\ DoLimiter("set_variant", <<default, variants>>, set_variant(lim, default, variants))

Vl_set_pattern ==
    \E default \in LimValues, pattern \in {"^x", "^[0-9]+$"} :
        /\ sut = "ValueLimiter"
        /\ DoLimiter("set_pattern", <<default, pattern>>, set_pattern(lim, default, pattern))

NextLimiter ==
    \/ Vl_from_line
    \/ Vl_set_type
    \/ Vl_set_variant
    \/ Vl_set_pattern

SpecLimiter == InitLimiter /\ [][NextLimiter]_vars

\* C29: the limiter never has both a variant set and a pattern; with either
\* it has a default; and its default, when set, qualifies the limiter.
C29_LimiterWellFormed ==
    /\ ~(lim.variant # <<>> /\ lim.pattern # <<>>)
    /\ (lim.variant # <<>> \/ lim.pattern # <<>>) => lim.default # <<>>
    /\ lim.default # <<>> => qualify(lim, lim.default[1])


\* The limiter l holds exactly what the attributes (type, default, variant,
\* pattern) give: the type, the default, and the variants or the pattern.
HoldsGiven(l, a) ==
    /\ ValueType_from_str(a[1]) = <<l.value_type>>
    /\ IF a[2] = <<>> THEN l.default = <<>>
       ELSE /\ l.default # <<>>
            /\ get_type(l.default[1]) = l.value_type
            /\ to_string(l.default[1]) = a[2]
    /\ IF a[3] = <<>> /\ a[4] = <<>> THEN l.variant = <<>> /\ l.pattern = <<>>
       ELSE \/ /\ a[3] # <<>>
               /\ l.variant # <<>>
               /\ [i \in DOMAIN l.variant[1] |-> to_string(l.variant[1][i])]
                    = split_whitespace(a[3], <<>>)
            \/ /\ a[4] # <<>>
               /\ Regex_new(a[4]) # <<>>
               /\ l.pattern = Regex_new(a[4])

\* C30: from_line returns InvalidRowData when the attributes are not 4,
\* InvalidLimiter when a variant list or a pattern comes with an empty
\* default, an error when the default is not one of the variants or does
\* not match the pattern, and otherwise Ok with a limiter that holds exactly
\* the given type, default and variants or pattern.
C30_FromLine ==
    [][last'.op = "from_line" =>
         LET a == last'.arg
         IN  IF Len(a) # LIMITER_ATTRIBUTE_LEN THEN last'.ret = "InvalidRowData"
             ELSE IF a[2] = <<>> /\ (a[3] # <<>> \/ a[4] # <<>>)
             THEN last'.ret = "InvalidLimiter"
             ELSE IF a[3] # <<>> /\ ~contains(split_whitespace(a[3], <<>>), a[2])
             THEN last'.ret \notin {"Ok", "Panic"}
             ELSE IF /\ a[3] = <<>> /\ a[4] # <<>> /\ Regex_new(a[4]) # <<>>
                     /\ ~is_match(Regex_new(a[4])[1], a[2])
             THEN last'.ret \notin {"Ok", "Panic"}
             ELSE last'.ret = "Ok" /\ HoldsGiven(lim', a)]_vars

---------------------------------------------------------------------------
(* SpecSchema: a VirtualData whose columns get limiters built by          *)
(* from_line, set_variant and set_pattern; its schema is exported and     *)
(* read back line by line.                                                *)

SchMaxCols == 2

\* pub const SCHEMA_HEADER: &str = "column,type,default,variant,pattern"
SCHEMA_HEADER ==
    <<"c", "o", "l", "u", "m", "n", ",", "t", "y", "p", "e", ",",
      "d", "e", "f", "a", "u", "l", "t", ",", "v", "a", "r", "i", "a", "n", "t", ",",
      "p", "a", "t", "t", "e", "r", "n">>

\* impl Display for ValueType
ValueType_to_string(value_type) ==
    IF value_type = "Number" THEN <<"N", "u", "m", "b", "e", "r">>
    ELSE <<"T", "e", "x", "t">>

\* Regex::to_string: the source the pattern was built from
Regex_to_string(pattern) ==
    IF pattern = "^x" THEN <<"^", "x">>
    ELSE <<"^", "[", "0", "-", "9", "]", "+", "$">>

\* The line export_schema writes for a column, without its "\n"
schema_line(col) ==
    col.name \o <<",">>
    \o ValueType_to_string(col.limiter.value_type) \o <<",">>
    \o (IF col.limiter.default # <<>> THEN to_string(col.limiter.default[1]) ELSE <<>>)
    \o <<",">>
    \o join(IF col.limiter.variant # <<>>
            THEN [i \in DOMAIN col.limiter.variant[1] |->
                    to_string(col.limiter.variant[1][i])]
            ELSE <<>>, <<" ">>)
    \o <<",">>
    \o (IF col.limiter.pattern # <<>> THEN Regex_to_string(col.limiter.pattern[1])
        ELSE <<>>)

export_schema(d) ==
    SCHEMA_HEADER \o <<"\n">>
    \o join([c \in DOMAIN d.columns |-> schema_line(d.columns[c]) \o <<"\n">>], <<>>)

\* The schema read as csv by a new Reader, and the limiter from_line gives
\* for the last four fields of the row of column index x.
import_schema(schema, x) ==
    CHOOSE r \in {IF read.ret # "Ok" THEN Res(<<>>, read.ret)
                  ELSE IF x >= Len(read.data.rows) THEN Res(<<>>, "OutOfRangeError")
                  ELSE LimiterOf(from_line(
                         Tail([i \in DOMAIN read.data.columns |->
                                 to_string(read.data.rows[x + 1][read.data.columns[i].name])])))
                    : read \in {data_from_stream(Parser_new, ReaderOption_new,
                                                 read_until(schema, "\n", <<>>))}} : TRUE

SchNames == {<<"a">>, <<"b">>}

\* Lines for from_line: text,,, and number,5,5 6, and text,x,,^x
SchLines ==
    {<<<<"t", "e", "x", "t">>, <<>>, <<>>, <<>>>>,
     <<<<"n", "u", "m", "b", "e", "r">>, <<"5">>, <<"5", " ", "6">>, <<>>>>,
     <<<<"t", "e", "x", "t">>, <<"x">>, <<>>, <<"^", "x">>>>}

\* The texts of defaults and variants: empty, x, "x y", ","
SchValues == {Text(<<>>), Text(<<"x">>), Text(<<"x", " ", "y">>), Text(<<",">>)}

Sch_from_line ==
    \E attributes \in SchLines :
        DoLimiter("from_line", attributes, LimiterOf(from_line(attributes)))

Sch_set_variant ==
    \E default \in SchValues :
        DoLimiter("set_variant", <<default, <<default, Text(<<"y">>)>>>>,
                  set_variant(ValueLimiter_default, default, <<default, Text(<<"y">>)>>))

Sch_insert_column_with_type ==
    \E i \in 0..SchMaxCols, name \in SchNames :
        /\ Len(vd.columns) < SchMaxCols
        /\ Do("insert_column_with_type", i, 0, <<name, lim>>,
              VD_insert_column_with_type(vd, i, name, lim.value_type, <<lim>>, <<>>))

Sch_delete_column ==
    \E i \in 0..(SchMaxCols - 1) :
        Do("delete_column", i, 0, <<>>, VD_delete_column(vd, i))

Sch_export_schema ==
    Do("export_schema", 0, 0, export_schema(vd), Res(vd, "Ok"))

Sch_import_schema ==
    \E x \in 0..(SchMaxCols - 1) :
        /\ x < Len(vd.columns)
        /\ last.ret # "Panic"
        /\ \E res \in {import_schema(export_schema(vd), x)} :
              /\ lim' = IF res.ret = "Ok" THEN res.data ELSE lim
              /\ last' = Call("import_schema", x, 0, export_schema(vd), res.ret)
        /\ UNCHANGED <<sut, vd, va, parser, option, feed>>

NextSchema ==
    \/ Sch_from_line
    \/ Sch_set_variant
    \/ Sch_insert_column_with_type
    \/ Sch_delete_column
    \/ Sch_export_schema
    \/ Sch_import_schema

SpecSchema == InitLimit /\ [][NextSchema]_vars

\* The two limiters have the same type, default, variant set and pattern.
SameLimiter(l, m) ==
    /\ l.value_type = m.value_type
    /\ l.default = m.default
    /\ (l.variant = <<>>) = (m.variant = <<>>)
    /\ l.variant # <<>> => Elems(l.variant[1]) = Elems(m.variant[1])
    /\ l.pattern = m.pattern

\* C31: the schema row export_schema writes for a column, read back through
\* from_line on its last four fields, gives a limiter with the same type,
\* default, variant set and pattern as the column's limiter.
C31_SchemaRoundTrip ==
    last.op = "import_schema" =>
        /\ last.ret = "Ok"
        /\ SameLimiter(lim, vd.columns[last.x + 1].limiter)

---------------------------------------------------------------------------
(* SpecHeader: a Reader with has_header(false) reads inputs whose rows     *)
(* have 1 to MaxFields fields into a VirtualData or a VirtualArray.        *)

MaxFields == 27

\* A builder method of Reader: the reader afterwards has the option opt and
\* the parser p.
DoOption(op, arg, opt, p) ==
    /\ last.ret # "Panic"
    /\ option' = opt
    /\ parser' = p
    /\ last' = Call(op, 0, 0, arg, "Ok")
    /\ UNCHANGED <<sut, vd, va, feed, lim>>

\* Reader::has_header(tv)
has_header(opt, tv) == [opt EXCEPT !.read_header = tv]

\* The line of n fields x, ended by "\n": a chunk as read_until cuts it
FieldsLine(n) == join([i \in 1..n |-> <<"x">>], <<",">>) \o <<"\n">>

Hd_has_header ==
    \E tv \in BOOLEAN : DoOption("has_header", tv, has_header(option, tv), parser)

Hd_read ==
    \E n \in 1..MaxFields, n_rows \in 1..2 :
        DoRead([k \in 1..n_rows |-> FieldsLine(n)])

NextHeader ==
    \/ Hd_has_header
    \/ Hd_read

SpecHeader == InitCont /\ [][NextHeader]_vars

\* The number of fields of an unquoted line
FieldCount(line) == Len(SelectSeq(line, LAMBDA ch : ch = ",")) + 1

IsRead == last.op \in {"data_from_stream", "array_from_stream"}

\* C33: a read without header and custom header of an input whose first row
\* has n fields succeeds and creates n columns with pairwise distinct names,
\* the first three a, b, c and the 27th aa.
C33_HeaderSynthesis ==
    (IsRead /\ ~option.read_header /\ option.custom_header = <<>>) =>
        LET n == FieldCount(last.arg[1])
            names == [c \in DOMAIN cont.columns |-> cont.columns[c].name]
        IN  /\ last.ret = "Ok"
            /\ Len(names) = n
            /\ \A i \in 1..n, j \in 1..n : names[i] = names[j] => i = j
            /\ n >= 1 => names[1] = <<"a">>
            /\ n >= 2 => names[2] = <<"b">>
            /\ n >= 3 => names[3] = <<"c">>
            /\ n >= 27 => names[27] = <<"a", "a">>

---------------------------------------------------------------------------
(* SpecReader: a Reader configured by its builder methods reads texts,     *)
(* again and again, into a VirtualData or a VirtualArray.                  *)

\* Reader::consume_dquote(tv)
consume_dquote(opt, tv) == [opt EXCEPT !.consume_dquote = tv]

\* Reader::ignore_empty_row(tv)
ignore_empty_row(opt, tv) == [opt EXCEPT !.ignore_empty_row = tv]

\* Reader::trim(tv)
Reader_trim(opt, tv) == [opt EXCEPT !.trim = tv]

\* Reader::custom_header(headers)
custom_header(opt, headers) == [opt EXCEPT !.custom_header = headers]

\* Reader::use_line_delimiter(delimiter): the option and the parser's field
use_line_delimiter(opt, p, delimiter) ==
    [option |-> [opt EXCEPT !.line_delimiter = <<delimiter>>],
     parser |-> [p EXCEPT !.line_delimiter = <<delimiter>>]]

\* The texts read: a header and a row; a quote left open at the end; lines
\* ended by "\r\n"; a "\r\n" within a field of lines ended by |; an empty
\* row; fields with spaces around them.
RdTexts ==
    {<<"a", ",", "b", "\n", "x", ",", "y", "\n">>,
     <<"a", "\n", "\"", "x">>,
     <<"a", "\r", "\n", "x", "\r", "\n">>,
     <<"a", "|", "x", "\r", "\n", "y", "|">>,
     <<"a", "\n", "\n", "x", "\n">>,
     <<" ", "a", "\n", " ", "x", "\n">>}

Rd_consume_dquote ==
    \E tv \in BOOLEAN : DoOption("consume_dquote", tv, consume_dquote(option, tv), parser)

Rd_ignore_empty_row ==
    \E tv \in BOOLEAN : DoOption("ignore_empty_row", tv, ignore_empty_row(option, tv), parser)

Rd_trim ==
    \E tv \in BOOLEAN : DoOption("trim", tv, Reader_trim(option, tv), parser)

Rd_has_header ==
    \E tv \in BOOLEAN : DoOption("has_header", tv, has_header(option, tv), parser)

Rd_custom_header ==
    \E headers \in {<<<<"h">>>>, <<<<"h">>, <<"i">>>>} :
        DoOption("custom_header", headers, custom_header(option, headers), parser)

Rd_use_line_delimiter ==
    \E set \in {use_line_delimiter(option, parser, "|")} :
        DoOption("use_line_delimiter", "|", set.option, set.parser)

\* data_from_stream or array_from_stream on a text: read_until cuts it at the
\* line delimiter of the option.
Rd_read ==
    \E text \in RdTexts :
        DoRead(read_until(text, unwrap_or(option.line_delimiter, "\n"), <<>>))

NextReader ==
    \/ Rd_consume_dquote
    \/ Rd_ignore_empty_row
    \/ Rd_trim
    \/ Rd_has_header
    \/ Rd_custom_header
    \/ Rd_use_line_delimiter
    \/ Rd_read

SpecReader == InitCont /\ [][NextReader]_vars

\* C34: a read that follows a read of the same input on the same Reader
\* returns the same result and an equal container.
C34_OptionsPersist ==
    [][(IsRead /\ last.ret # "Panic"
        /\ last'.op = last.op /\ last'.arg = last.arg)
         => (last'.ret = last.ret /\ cont' = cont)]_vars

\* The number of places where "\r\n" occurs in a text
CrLfCount(s) ==
    Cardinality({i \in 1..(Len(s) - 1) : s[i] = "\r" /\ s[i + 1] = "\n"})

\* C35: a read normalizes "\r\n" to "\n" in the default line-delimiter
\* configuration only: after use_line_delimiter every "\r\n" of the input is
\* found unchanged in the texts of the fields read.
C35_CrLfOnlyByDefault ==
    (IsRead /\ last.ret = "Ok" /\ ~option.trim) =>
        LET parsed == CrLfCount(join(TableLines(cont), <<",">>))
        IN  IF option.line_delimiter = <<>> THEN parsed = 0
            ELSE parsed = CrLfCount(join(last.arg, <<>>))

---------------------------------------------------------------------------
(* SpecQualify: the limiter of SpecLimiter, asked whether values qualify.  *)

\* qualify(&value) reads the limiter and returns a bool
Vl_qualify ==
    \E value \in LimValues :
        /\ sut = "ValueLimiter"
        /\ DoLimiter("qualify", value,
                     Res(lim, IF qualify(lim, value) THEN "true" ELSE "false"))

NextQualify ==
    \/ NextLimiter
    \/ Vl_qualify

SpecQualify == InitLimiter /\ [][NextQualify]_vars

\* C36: qualify(value) is true if and only if the value's type is the
\* limiter's type and the limiter has no variant and no pattern, or the value
\* is one of the variants, or the pattern matches the value's string form.
C36_Qualify ==
    last.op = "qualify" =>
        ((last.ret = "true") <=>
            /\ get_type(last.arg) = lim.value_type
            /\ \/ lim.variant = <<>> /\ lim.pattern = <<>>
               \/ lim.variant # <<>> /\ contains(lim.variant[1], last.arg)
               \/ lim.pattern # <<>> /\ is_match(lim.pattern[1], to_string(last.arg)))

---------------------------------------------------------------------------
(* SpecTyped: a VirtualData of one column, inserted with a declared type,  *)
(* a limiter or none and a placeholder or none, with up to TyMaxRows rows, *)
(* whose limiter is replaced by set_limiter, strict or lenient.            *)

TyMaxRows == 2

Ty_insert_column ==
    /\ vd.columns = <<>>
    /\ Do("insert_column", 0, 0, <<"a">>, VD_insert_column(vd, 0, <<"a">>))

Ty_insert_column_with_type ==
    \E column_type \in {"Text", "Number"}, limiter \in {<<>>, <<LimNumber>>},
       placeholder \in {<<>>, <<Text(<<"x">>)>>} :
        /\ vd.columns = <<>>
        /\ Do("insert_column_with_type", 0, 0, <<column_type, limiter, placeholder>>,
              VD_insert_column_with_type(vd, 0, <<"a">>, column_type, limiter, placeholder))

Ty_insert_row ==
    \E i \in 0..TyMaxRows, source \in {<<>>} \cup {<<<<value>>>> : value \in LimValues} :
        /\ Len(vd.rows) < TyMaxRows
        /\ Do("insert_row", i, 0, source, VD_insert_row(vd, i, source))

Ty_delete_column ==
    Do("delete_column", 0, 0, <<>>, VD_delete_column(vd, 0))

Ty_set_limiter ==
    \E limiter \in {ValueLimiter_default, LimNumber}, panic \in BOOLEAN :
        /\ vd.columns # <<>>
        /\ Do("set_limiter", 0, 0, <<limiter, panic>>, VD_set_limiter(vd, 0, limiter, panic))

NextTyped ==
    \/ Ty_insert_column
    \/ Ty_insert_column_with_type
    \/ Ty_insert_row
    \/ Ty_delete_column
    \/ Ty_set_limiter

SpecTyped == InitLimit /\ [][NextTyped]_vars

\* C37: in every state of a VirtualData each column's declared type is its
\* limiter's type, and every cell of the column has that type.
C37_TypesAgree ==
    \A c \in DOMAIN vd.columns :
        /\ vd.columns[c].column_type = vd.columns[c].limiter.value_type
        /\ \A r \in DOMAIN vd.rows :
              vd.columns[c].name \in DOMAIN vd.rows[r]
                 => get_type(vd.rows[r][vd.columns[c].name]) = vd.columns[c].column_type

---------------------------------------------------------------------------
(* SpecConvert: a VirtualData of one column and up to CvMaxRows rows of    *)
(* texts, converted to Number and back to Text by set_limiter.             *)

CvMaxRows == 2

\* The texts inserted: empty, 5, 05, +5, -5, x
CvValues ==
    {Text(<<>>), Text(<<"5">>), Text(<<"0", "5">>), Text(<<"+", "5">>),
     Text(<<"-", "5">>), Text(<<"x">>)}

Cv_insert_column ==
    /\ vd.columns = <<>>
    /\ Do("insert_column", 0, 0, <<"a">>, VD_insert_column(vd, 0, <<"a">>))

Cv_insert_row ==
    \E i \in 0..CvMaxRows, value \in CvValues :
        /\ vd.columns # <<>>
        /\ Len(vd.rows) < CvMaxRows
        /\ Do("insert_row", i, 0, <<<<value>>>>, VD_insert_row(vd, i, <<<<value>>>>))

Cv_set_limiter ==
    \E limiter \in {ValueLimiter_default, LimNumber}, panic \in BOOLEAN :
        /\ vd.columns # <<>>
        /\ Do("set_limiter", 0, 0, <<limiter, panic>>, VD_set_limiter(vd, 0, limiter, panic))

NextConvert ==
    \/ Cv_insert_column
    \/ Cv_insert_row
    \/ Cv_set_limiter

SpecConvert == InitLimit /\ [][NextConvert]_vars

\* C38: a cell that set_limiter converts in place to the other type (it is
\* not replaced by the default) has the same string form after the call as
\* before.
C38_ConversionKeepsText ==
    [][(sut = "VirtualData" /\ last'.op = "set_limiter" /\ last'.x < Len(vd.columns)) =>
         \A r \in DOMAIN vd.rows :
            (/\ r \in DOMAIN vd'.rows
             /\ vd.columns[last'.x + 1].name \in DOMAIN vd.rows[r]
             /\ get_type(CellOf(vd', r, last'.x + 1)) # get_type(CellOf(vd, r, last'.x + 1))
             /\ ConvertedBy(last'.arg[1], CellOf(vd, r, last'.x + 1)) # <<>>)
               => to_string(CellOf(vd', r, last'.x + 1))
                    = to_string(CellOf(vd, r, last'.x + 1))]_vars

====
